---- MODULE Spec2Model ----
(***************************************************************************)
(* A model of knil (analyzer/knil): the interprocedural nilness analysis.  *)
(* run() repeats Summarize walks (checkFunc with onlyCheck = true) over    *)
(* the source functions until no walk reports an update, exports pkgDone,  *)
(* and then walks every function once more to emit diagnostics.            *)
(***************************************************************************)
EXTENDS Integers, Sequences, FiniteSets, TLC

(***************************************************************************)
(* nilness.go: the lattice                                                 *)
(***************************************************************************)
isnonnil == -1
unknown == 0
isnil == 1

Nilness == {isnonnil, unknown, isnil}

\* a meet that keeps its first operand
mergeLeft(a, b) == a

\* merge(a, b)
merge(a, b) == IF a * b = unknown \/ a # b THEN unknown ELSE a

\* nilnessOfValue.negate
negate(f) == [value |-> f.value, nilness |-> 0 - f.nilness]

\* equal(a, b) over nilnesses
equal(a, b) == Len(a) = Len(b) /\ \A i \in 1..Len(a) : a[i] = b[i]

\* mergeNilnesses(na, carg): the merged vector, the changed flag, and panic
\* for the panic("inconsistent arguments count")
mergeNilnesses(na, carg) ==
    IF Len(na) # Len(carg)
    THEN [ns |-> <<>>, changed |-> FALSE, panic |-> TRUE]
    ELSE IF equal(na, carg)
    THEN [ns |-> na, changed |-> FALSE, panic |-> FALSE]
    ELSE LET nnn == [i \in 1..Len(na) |-> merge(na[i], carg[i])]
         IN  [ns |-> nnn, changed |-> ~equal(na, nnn), panic |-> FALSE]

(***************************************************************************)
(* SSA values.  A value is identified by id (pointer identity in the Go    *)
(* code); kind is its dynamic type, nil tells a nil constant and g is the  *)
(* id of the global an UnOp loads from (0 when it loads from no global).   *)
(***************************************************************************)
Val(kind, id) == [kind |-> kind, id |-> id, nil |-> FALSE, g |-> 0]
NoVal == Val("None", 0)
NilConst(id) == [kind |-> "Const", id |-> id, nil |-> TRUE, g |-> 0]
Const(id) == Val("Const", id)
Param(id) == Val("Parameter", id)

\* the types nilnessOf's switch answers isnonnil for
IntrinsicKinds == {"Alloc", "FieldAddr", "FreeVar", "Function", "Global",
                   "IndexAddr", "MakeChan", "MakeClosure", "MakeInterface",
                   "MakeMap", "MakeSlice", "Builtin"}

\* the loop of nilnessOf over the dominating facts, from index i on
RECURSIVE searchStack(_, _, _)
searchStack(stack, v, i) ==
    IF i > Len(stack) THEN unknown
    ELSE IF stack[i].value = v THEN stack[i].nilness
    ELSE searchStack(stack, v, i + 1)

\* a lookup that scans the facts from the most recent one
RECURSIVE searchStackBack(_, _, _)
searchStackBack(stack, v, i) ==
    IF i < 1 THEN unknown
    ELSE IF stack[i].value = v THEN stack[i].nilness
    ELSE searchStackBack(stack, v, i - 1)

nilnessOfNoIntrinsic(stack, v) ==
    IF v.kind = "Const" THEN (IF v.nil THEN isnil ELSE isnonnil)
    ELSE searchStack(stack, v, 1)

nilnessOfLast(stack, v) ==
    IF v.kind \in IntrinsicKinds THEN isnonnil
    ELSE IF v.kind = "Const" THEN (IF v.nil THEN isnil ELSE isnonnil)
    ELSE searchStackBack(stack, v, Len(stack))

\* a lookup that lets a fact on the stack override the value's own kind
nilnessOfStackFirst(stack, v) ==
    IF \E i \in 1..Len(stack) : stack[i].value = v THEN searchStack(stack, v, 1)
    ELSE IF v.kind \in IntrinsicKinds THEN isnonnil
    ELSE IF v.kind = "Const" THEN (IF v.nil THEN isnil ELSE isnonnil)
    ELSE unknown

\* nilnessOf(stack, v)
nilnessOf(stack, v) ==
    IF v.kind \in IntrinsicKinds THEN isnonnil
    ELSE IF v.kind = "Const" THEN (IF v.nil THEN isnil ELSE isnonnil)
    ELSE searchStack(stack, v, 1)

\* nilnessesOf(stack, vs)
nilnessesOf(stack, vs) == [i \in 1..Len(vs) |-> nilnessOf(stack, vs[i])]

Fact(v, n) == [value |-> v, nilness |-> n]

(***************************************************************************)
(* facts.go: functionInfo{na, nr, rfv}.  A posToNilnesses / posToNilness   *)
(* map is a function whose domain is the set of recorded positions.        *)
(***************************************************************************)
EmptyMap == [p \in {} |-> <<>>]
MapPut(m, k, v) == [p \in (DOMAIN m) \cup {k} |-> IF p = k THEN v ELSE m[p]]
MapLen(m) == Cardinality(DOMAIN m)
EmptyInfo == [na |-> EmptyMap, nr |-> EmptyMap, rfv |-> EmptyMap]

\* posToNilnesses.length(): the length of the recorded vectors
length(m) ==
    IF DOMAIN m = {} THEN 0
    ELSE Len(m[CHOOSE k \in DOMAIN m : \A j \in DOMAIN m : k <= j])

\* the meet of a set of nilness values
MeetAll(S) == IF Cardinality(S) = 1 THEN (CHOOSE n \in S : TRUE) ELSE unknown

\* mergePosToNilnesses(m): positional meet of every recorded vector
mergePosToNilnesses(m) ==
    [i \in 1..length(m) |->
        MeetAll({IF i <= Len(m[k]) THEN m[k][i] ELSE unknown : k \in DOMAIN m})]

(***************************************************************************)
(* The SSA input (golang.org/x/tools/go/ssa), as the analysis reads it.    *)
(* An instruction is identified by pos; op is its dynamic type.            *)
(***************************************************************************)
INSTR == [pos |-> 0, op |-> "Other", x |-> NoVal, y |-> NoVal, args |-> <<>>,
          callee |-> "", fnval |-> NoVal, results |-> <<>>, flag |-> FALSE,
          cmp |-> "", descr |-> "", index |-> 0]

\* instructions that are also ssa.Values
ValueOps == {"Call", "UnOp", "FieldAddr", "Slice", "TypeAssert", "Extract",
             "Alloc", "Phi", "BinOp"}
\* ssa.CallInstruction: *Call, *Go, *Defer
CallOps == {"Call", "Go", "Defer"}

\* the value an instruction defines
IV(i) == [kind |-> i.op, id |-> i.pos, nil |-> FALSE,
          g |-> IF i.op = "UnOp" /\ i.x.kind = "Global" THEN i.x.id ELSE 0]

CallI(pos, op, callee, args) ==
    [INSTR EXCEPT !.pos = pos, !.op = op, !.callee = callee, !.args = args,
                  !.fnval = Val("Function", 0), !.descr = "static function call"]
DynCallI(pos, op, fv) ==
    [INSTR EXCEPT !.pos = pos, !.op = op, !.fnval = fv,
                  !.descr = "dynamic function call"]
UnOpI(pos, x) == [INSTR EXCEPT !.pos = pos, !.op = "UnOp", !.x = x, !.flag = TRUE]
FieldAddrI(pos, x) == [INSTR EXCEPT !.pos = pos, !.op = "FieldAddr", !.x = x]
SliceI(pos, x, isptr) ==
    [INSTR EXCEPT !.pos = pos, !.op = "Slice", !.x = x, !.flag = isptr]
StoreI(pos, addr, v) ==
    [INSTR EXCEPT !.pos = pos, !.op = "Store", !.x = addr, !.y = v]
TypeAssertI(pos, x, commaok) ==
    [INSTR EXCEPT !.pos = pos, !.op = "TypeAssert", !.x = x, !.flag = commaok]
MapUpdateI(pos, m) == [INSTR EXCEPT !.pos = pos, !.op = "MapUpdate", !.x = m]
ReturnI(pos, rs) == [INSTR EXCEPT !.pos = pos, !.op = "Return", !.results = rs]
AllocI(pos) == [INSTR EXCEPT !.pos = pos, !.op = "Alloc"]
JumpI(pos) == [INSTR EXCEPT !.pos = pos, !.op = "Jump"]
BinOpI(pos, cmp, x, y) ==
    [INSTR EXCEPT !.pos = pos, !.op = "BinOp", !.cmp = cmp, !.args = <<x, y>>]
\* Extract{Tuple, Index}: component index (from 0) of the tuple
ExtractI(pos, tuple, index) ==
    [INSTR EXCEPT !.pos = pos, !.op = "Extract", !.x = tuple, !.index = index]
PhiI(pos, edges) == [INSTR EXCEPT !.pos = pos, !.op = "Phi", !.args = edges]
\* an If whose Cond is the BinOp bo: cmp and args repeat bo's Op, X and Y
IfI(pos, bo) ==
    [INSTR EXCEPT !.pos = pos, !.op = "If", !.x = IV(bo), !.cmp = bo.cmp,
                  !.args = bo.args]

\* instr.Operands
Operands(i) ==
    CASE i.op \in CallOps -> <<i.fnval>> \o i.args
      [] i.op = "Return" -> i.results
      [] i.op \in {"BinOp", "Phi"} -> i.args
      [] i.op = "Store" -> <<i.x, i.y>>
      [] i.op \in {"Alloc", "Jump"} -> <<>>
      [] OTHER -> <<i.x>>

Blk(instrs, succs, npreds, dominees) ==
    [instrs |-> instrs, succs |-> succs, npreds |-> npreds, dominees |-> dominees]

\* upper tells, for each rune of the object's name, whether unicode.IsUpper
\* holds of it
Func(name, params, blocks) ==
    [name |-> name, obj |-> name, params |-> params, freeVars |-> <<>>,
     blocks |-> blocks, pkg |-> "self", hasObj |-> TRUE, ignored |-> FALSE,
     upper |-> <<FALSE>>]

RECURSIVE Flatten(_)
Flatten(ss) == IF ss = <<>> THEN <<>> ELSE Head(ss) \o Flatten(Tail(ss))

AllInstrs(fn) == Flatten([b \in 1..Len(fn.blocks) |-> fn.blocks[b].instrs])

SeqToSet(s) == {s[i] : i \in 1..Len(s)}

\* the referrers of v in fn: the instructions that have v as an operand
PosOf(is) == [i \in 1..Len(is) |-> is[i].pos]
InitReferrers(fn, v) ==
    PosOf(SelectSeq(AllInstrs(fn), LAMBDA i : v \in SeqToSet(Operands(i))))

(***************************************************************************)
(* The state a walk threads through its instruction scan: the local fact   *)
(* stack, the fact store, checkFunc's updated flag, the reported           *)
(* diagnostics, alreadyReported, the exported alreadyReportedGlobal facts, *)
(* the referrer lists, and whether a panic was raised.  dlog keeps, for    *)
(* each nilderef report, the operand, the stack it was looked up under and *)
(* alreadyReported as it was then.                                         *)
(***************************************************************************)
Push(S, v, n) == [S EXCEPT !.stack = Append(@, Fact(v, n))]

\* the inner loop of notNil's suppression over one layer of referrers
RECURSIVE MarkLayer(_, _, _, _, _)
MarkLayer(layer, k, ar, nvrs, refs) ==
    IF k > Len(layer) THEN [ar |-> ar, nvrs |-> nvrs]
    ELSE LET vr == layer[k]
         IN IF vr \in ar THEN MarkLayer(layer, k + 1, ar, nvrs, refs)
            ELSE IF vr \in DOMAIN refs
                 THEN MarkLayer(layer, k + 1, ar \cup {vr}, nvrs \o refs[vr], refs)
                 ELSE MarkLayer(layer, k + 1, ar \cup {vr}, nvrs, refs)

\* a marking that stops after the referrers of v themselves
SuppressOneLayer(vid, ar, refs) ==
    [ar |-> MarkLayer(refs[vid], 1, ar, <<>>, refs).ar, refs |-> refs]

\* the outer loop: "for vrs != nil { ...; *vrs = nvrs }"
RECURSIVE Suppress(_, _, _)
Suppress(vid, ar, refs) ==
    LET R == MarkLayer(refs[vid], 1, ar, <<>>, refs)
    IN IF Len(R.nvrs) = 0 THEN [ar |-> R.ar, refs |-> refs]
       ELSE Suppress(vid, R.ar, [refs EXCEPT ![vid] = R.nvrs])

Diag(cat, pos, descr) == [cat |-> cat, pos |-> pos, descr |-> descr]

\* a notNil that treats the load of a global like any other operand
notNilNoGlobal(prog, S, i, v, descr) ==
    IF nilnessOf(S.stack, v) = isnonnil THEN S
    ELSE LET S1 == [S EXCEPT
                      !.diags = Append(@, Diag("nilderef", i.pos, descr)),
                      !.dlog = @ \cup {[pos |-> i.pos, v |-> v, stack |-> S.stack,
                                      ar |-> S.ar]}]
         IN IF v.id \notin DOMAIN S1.refs THEN S1
            ELSE LET R == Suppress(v.id, S1.ar, S1.refs)
                 IN [S1 EXCEPT !.ar = R.ar, !.refs = R.refs]

\* notNil(stack, instr, v, descr)
notNil(prog, S, i, v, descr) ==
    IF nilnessOf(S.stack, v) = isnonnil THEN S
    ELSE LET S1 == [S EXCEPT
                      !.diags = Append(@, Diag("nilderef", i.pos, descr)),
                      !.dlog = @ \cup {[pos |-> i.pos, v |-> v, stack |-> S.stack,
                                      ar |-> S.ar]}]
         IN IF v.kind = "UnOp" /\ v.g # 0 /\ v.g \in prog.ownGlobals
            THEN [S1 EXCEPT !.gr = @ \cup {v.g}]
            ELSE IF v.id \notin DOMAIN S1.refs THEN S1
            ELSE LET R == Suppress(v.id, S1.ar, S1.refs)
                 IN [S1 EXCEPT !.ar = R.ar, !.refs = R.refs]

\* the loop over the referrers of a call value that pushes one fact per
\* *ssa.Extract (Summarize mode, callee of a done foreign package)
RECURSIVE PushExtracts(_, _, _, _, _, _)
PushExtracts(prog, S, vrs, k, c, merged) ==
    IF k > Len(vrs) \/ S.panic THEN S
    ELSE LET vr == prog.instr[vrs[k]]
         IN IF vr.op = "Extract"
            THEN IF c + 1 > Len(merged)
                 THEN [S EXCEPT !.panic = TRUE]
                 ELSE PushExtracts(prog, Push(S, IV(vr), merged[c + 1]),
                                   vrs, k + 1, c + 1, merged)
            ELSE PushExtracts(prog, S, vrs, k + 1, c, merged)

\* the loop over the referrers of a call value in Diagnose mode: a fact per
\* *ssa.Extract, and the call value's fact for any other referring value
RECURSIVE PushReturns(_, _, _, _, _, _, _)
PushReturns(prog, S, v, vrs, k, c, nr) ==
    IF k > Len(vrs) \/ S.panic THEN S
    ELSE LET vr == prog.instr[vrs[k]]
             merged == mergePosToNilnesses(nr)
         IN IF vr.op = "Extract"
            THEN IF c + 1 > Len(merged)
                 THEN [S EXCEPT !.panic = TRUE]
                 ELSE PushReturns(prog, Push(S, IV(vr), merged[c + 1]),
                                  v, vrs, k + 1, c + 1, nr)
            ELSE IF vr.op \in ValueOps
                 THEN IF length(nr) # 1
                      THEN [S EXCEPT !.panic = TRUE]
                      ELSE PushReturns(prog, Push(S, v, merged[1]),
                                       v, vrs, k + 1, c, nr)
                 ELSE PushReturns(prog, S, v, vrs, k + 1, c, nr)

(***************************************************************************)
(* checkFunc, onlyCheck = true: the cases of the instruction switch        *)
(***************************************************************************)
\* a Return case that records the first return site it meets only
SumReturnFirst(fn, S, i) ==
    IF ~fn.hasObj THEN S
    ELSE LET fi == S.facts[fn.obj]
             rns == nilnessesOf(S.stack, i.results)
         IN IF MapLen(fi.nr) = 0 /\ Len(rns) # 0
            THEN [S EXCEPT !.upd = TRUE,
                           !.facts[fn.obj].nr = MapPut(EmptyMap, i.pos, rns)]
            ELSE S

\* case *ssa.Return
SumReturn(fn, S, i) ==
    IF ~fn.hasObj THEN S
    ELSE LET fi == S.facts[fn.obj]
             rns == nilnessesOf(S.stack, i.results)
         IN IF MapLen(fi.nr) = 0
            THEN IF Len(rns) = 0 THEN S
                 ELSE [S EXCEPT !.upd = TRUE,
                                !.facts[fn.obj].nr = MapPut(EmptyMap, i.pos, rns)]
            ELSE IF i.pos \in DOMAIN fi.nr /\ fi.nr[i.pos] = rns THEN S
                 ELSE [S EXCEPT !.upd = TRUE,
                                !.facts[fn.obj].nr = MapPut(fi.nr, i.pos, rns)]

\* a foreign-callee case that records the call site in the callee's facts
SumCallForeignStore(prog, S, i, c) ==
    [S EXCEPT !.upd = TRUE,
              !.facts[c.obj].na = MapPut(@, i.pos, nilnessesOf(S.stack, i.args))]

\* a foreign-callee case that passes over the call whatever the package's
\* pkgDone
SumCallForeignSkip(prog, S, i, c) == S

\* case ssa.CallInstruction, callee of another package
SumCallForeign(prog, S, i, c) ==
    IF ~prog.extDone THEN [S EXCEPT !.upd = TRUE]
    ELSE LET nr == S.facts[c.obj].nr
         IN CASE length(nr) = 0 -> S
              [] length(nr) = 1 ->
                    IF i.op \in ValueOps
                    THEN Push(S, IV(i), mergePosToNilnesses(nr)[1])
                    ELSE S
              [] OTHER ->
                    IF i.op \in ValueOps
                    THEN PushExtracts(prog, S, S.refs[i.pos], 1, 0,
                                      mergePosToNilnesses(nr))
                    ELSE S

\* fact.na[instr.Pos()] = ...; fact.rfv[instr.Pos()] = ...; ExportObjectFact
StoreSite(S, c, i, new, newr) ==
    [S EXCEPT !.upd = TRUE,
              !.facts[c.obj].na = MapPut(@, i.pos, new),
              !.facts[c.obj].rfv =
                  IF Len(c.freeVars) > 0 THEN MapPut(@, i.pos, newr) ELSE @]

\* a call-site update that meets the observation into the stored entry
SumCallLocalMeet(prog, S, i, c) ==
    LET fact == S.facts[c.obj]
        new == nilnessesOf(S.stack, i.args)
        old == IF i.pos \in DOMAIN fact.na /\ Len(fact.na[i.pos]) = Len(new)
               THEN fact.na[i.pos] ELSE new
        met == [k \in 1..Len(new) |-> merge(old[k], new[k])]
    IN IF i.pos \in DOMAIN fact.na /\ fact.na[i.pos] = met THEN S
       ELSE [S EXCEPT !.upd = TRUE, !.facts[c.obj].na = MapPut(@, i.pos, met)]

\* a call-site update that stores the observed vector whatever the stored
\* length
SumCallLocalAsIs(prog, S, i, c) ==
    StoreSite(S, c, i, nilnessesOf(S.stack, i.args),
              IF Len(c.freeVars) > 0 THEN nilnessOf(S.stack, c.freeVars[1]) ELSE unknown)

\* a reconciliation that puts the receiver after the arguments
SumCallLocalAppend(prog, S, i, c) ==
    LET fact == S.facts[c.obj]
        new == nilnessesOf(S.stack, i.args)
        newr == IF Len(c.freeVars) > 0 THEN nilnessOf(S.stack, c.freeVars[1]) ELSE unknown
        n == length(fact.na)
    IN IF (MapLen(fact.na) = 0 /\ MapLen(fact.rfv) = 0) \/ n = Len(i.args)
       THEN IF MapLen(fact.na) # 0 /\ n = 0 THEN S ELSE StoreSite(S, c, i, new, newr)
       ELSE IF n > Len(i.args)
       THEN [S EXCEPT !.facts[c.obj].na = MapPut(@, i.pos, new \o <<newr>>)]
       ELSE [S EXCEPT !.facts[c.obj].na =
                MapPut([p \in DOMAIN fact.na |->
                          fact.na[p]
                          \o <<IF p \in DOMAIN fact.rfv THEN fact.rfv[p] ELSE unknown>>],
                       i.pos, new)]

\* case ssa.CallInstruction, callee of this package
SumCallLocal(prog, S, i, c) ==
    LET fact == S.facts[c.obj]
        new == nilnessesOf(S.stack, i.args)
        hasFV == Len(c.freeVars) > 0
        newr == IF hasFV THEN nilnessOf(S.stack, c.freeVars[1]) ELSE unknown
        n == length(fact.na)
    IN IF MapLen(fact.na) = 0 /\ MapLen(fact.rfv) = 0
       THEN [S EXCEPT !.upd = TRUE,
                      !.facts[c.obj].na = MapPut(EmptyMap, i.pos, new),
                      !.facts[c.obj].rfv =
                          IF hasFV THEN MapPut(EmptyMap, i.pos, newr) ELSE EmptyMap]
       ELSE IF n = Len(i.args)
       THEN IF n = 0 THEN S
            ELSE IF i.pos \in DOMAIN fact.na
                 THEN IF fact.na[i.pos] = new
                      THEN IF ~hasFV THEN S
                           ELSE IF i.pos \in DOMAIN fact.rfv
                                THEN IF fact.rfv[i.pos] = newr THEN S
                                     ELSE [S EXCEPT !.upd = TRUE,
                                             !.facts[c.obj].rfv = MapPut(@, i.pos, newr)]
                                ELSE StoreSite(S, c, i, new, newr)
                      ELSE StoreSite(S, c, i, new, newr)
                 ELSE StoreSite(S, c, i, new, newr)
       ELSE IF n - Len(i.args) \notin {1, -1}
       THEN [S EXCEPT !.panic = TRUE]
       \* newFact := fact shares fact's maps: they are changed in place,
       \* reflect.DeepEqual(newFact, fact) holds and nothing is exported
       ELSE IF n > Len(i.args)
       THEN IF ~hasFV THEN [S EXCEPT !.panic = TRUE]
            ELSE [S EXCEPT !.facts[c.obj].na = MapPut(@, i.pos, <<newr>> \o new)]
       ELSE [S EXCEPT !.facts[c.obj].na =
                MapPut([p \in DOMAIN fact.na |->
                          <<IF p \in DOMAIN fact.rfv THEN fact.rfv[p] ELSE unknown>>
                          \o fact.na[p]],
                       i.pos, new)]

\* one instruction of the Summarize visit
SumInstr(prog, fn, S, i) ==
    IF S.panic THEN S
    ELSE CASE i.op = "Return" -> SumReturn(fn, S, i)
           [] i.op \in CallOps ->
                IF i.callee = "" THEN S
                ELSE LET c == prog.funcs[i.callee]
                     IN IF ~c.hasObj THEN S
                        ELSE IF c.pkg # "self" THEN SumCallForeign(prog, S, i, c)
                        ELSE SumCallLocal(prog, S, i, c)
           [] OTHER -> S

(***************************************************************************)
(* checkFunc, onlyCheck = false: the instruction switch of the visit       *)
(***************************************************************************)
\* a call case that reports the call target and pushes no return fact
DiagCallNoPush(prog, S, i) == notNil(prog, S, i, i.fnval, i.descr)

\* case ssa.CallInstruction of the Diagnose visit
DiagCall(prog, S, i) ==
    LET S1 == notNil(prog, S, i, i.fnval, i.descr)
    IN IF i.callee = "" THEN S1
       ELSE LET c == prog.funcs[i.callee]
            IN IF ~c.hasObj THEN S1
               ELSE LET nr == S1.facts[c.obj].nr
                    IN IF i.op \in ValueOps /\ length(nr) > 0
                       THEN PushReturns(prog, S1, IV(i), S1.refs[i.pos], 1, 0, nr)
                       ELSE S1

\* a Diagnose switch with the case of *ssa.UnOp only
DiagInstrLoads(prog, S, i) ==
    IF S.panic \/ i.pos \in S.ar THEN S
    ELSE IF i.op = "UnOp" /\ i.flag THEN notNil(prog, S, i, i.x, "load")
    ELSE S

\* a Diagnose switch that also checks the operand of an index operation
DiagInstrIndex(prog, S, i) ==
    IF S.panic THEN S
    ELSE LET ios == Operands(i)
         IN IF Len(ios) > 0 /\ ios[1].kind = "UnOp" /\ ios[1].g # 0
               /\ ios[1].g \in S.gr
            THEN S
            ELSE IF i.pos \in S.ar THEN S
            ELSE CASE i.op \in CallOps -> DiagCall(prog, S, i)
                   [] i.op = "FieldAddr" -> notNil(prog, S, i, i.x, "field selection")
                   [] i.op = "IndexAddr" -> notNil(prog, S, i, i.x, "index operation")
                   [] i.op = "MapUpdate" -> notNil(prog, S, i, i.x, "map update")
                   [] i.op = "Slice" ->
                        IF i.flag THEN notNil(prog, S, i, i.x, "slice operation")
                        ELSE S
                   [] i.op = "Store" -> notNil(prog, S, i, i.x, "store")
                   [] i.op = "TypeAssert" ->
                        IF i.flag THEN S
                        ELSE notNil(prog, S, i, i.x, "type assertion")
                   [] i.op = "UnOp" ->
                        IF i.flag THEN notNil(prog, S, i, i.x, "load") ELSE S
                   [] OTHER -> S

\* one instruction of the Diagnose visit
DiagInstr(prog, S, i) ==
    IF S.panic THEN S
    ELSE LET ios == Operands(i)
         IN IF Len(ios) > 0 /\ ios[1].kind = "UnOp" /\ ios[1].g # 0
               /\ ios[1].g \in S.gr
            THEN S
            ELSE IF i.pos \in S.ar THEN S
            ELSE CASE i.op \in CallOps -> DiagCall(prog, S, i)
                   [] i.op = "FieldAddr" -> notNil(prog, S, i, i.x, "field selection")
                   [] i.op = "MapUpdate" -> notNil(prog, S, i, i.x, "map update")
                   [] i.op = "Slice" ->
                        IF i.flag THEN notNil(prog, S, i, i.x, "slice operation")
                        ELSE S
                   [] i.op = "Store" -> notNil(prog, S, i, i.x, "store")
                   [] i.op = "TypeAssert" ->
                        IF i.flag THEN S
                        ELSE notNil(prog, S, i, i.x, "type assertion")
                   [] i.op = "UnOp" ->
                        IF i.flag THEN notNil(prog, S, i, i.x, "load") ELSE S
                   [] OTHER -> S

\* "for _, instr := range b.Instrs" of either visit
RECURSIVE Scan(_, _, _, _, _, _)
Scan(prog, fn, onlyCheck, instrs, k, S) ==
    IF k > Len(instrs) THEN S
    ELSE Scan(prog, fn, onlyCheck, instrs, k + 1,
              IF onlyCheck THEN SumInstr(prog, fn, S, instrs[k])
              ELSE DiagInstr(prog, S, instrs[k]))

(***************************************************************************)
(* nilness.go eq and checkFunc's prune                                     *)
(***************************************************************************)
NoEq == [ok |-> FALSE, op |-> "", X |-> NoVal, Y |-> NoVal, pos |-> 0,
         tsucc |-> 0, fsucc |-> 0]

\* an eq that returns the successors in the order of b.Succs for both operators
eqSameOrder(b) ==
    LET If == b.instrs[Len(b.instrs)]
    IN IF If.op = "If" /\ If.cmp \in {"EQL", "NEQ"}
       THEN [ok |-> TRUE, op |-> If.cmp, X |-> If.args[1], Y |-> If.args[2],
             pos |-> If.x.id, tsucc |-> b.succs[1], fsucc |-> b.succs[2]]
       ELSE NoEq

\* eq(b): the comparison b ends with, its true (equal) and false (not equal)
\* successors; b.Succs[0] is succs[1] here
eq(b) ==
    LET If == b.instrs[Len(b.instrs)]
    IN IF If.op = "If" /\ If.cmp = "EQL"
       THEN [ok |-> TRUE, op |-> "EQL", X |-> If.args[1], Y |-> If.args[2],
             pos |-> If.x.id, tsucc |-> b.succs[1], fsucc |-> b.succs[2]]
       ELSE IF If.op = "If" /\ If.cmp = "NEQ"
       THEN [ok |-> TRUE, op |-> "NEQ", X |-> If.args[1], Y |-> If.args[2],
             pos |-> If.x.id, tsucc |-> b.succs[2], fsucc |-> b.succs[1]]
       ELSE NoEq

Kid(d, stack) == [b |-> d, stack |-> stack]
NotHandled == [handled |-> FALSE, case |-> "none", kids |-> <<>>, conds |-> <<>>,
               skipped |-> {}]

\* a prune that skips the impossible successor whatever its predecessors
pruneAnyPreds(fn, onlyCheck, b, stack) ==
    LET e == eq(b)
        xnil == nilnessOf(stack, e.X)
        ynil == nilnessOf(stack, e.Y)
        skip == IF xnil = ynil THEN e.fsucc ELSE e.tsucc
        ds == SelectSeq(b.dominees, LAMBDA d : d # skip)
    IN IF e.ok /\ ynil # unknown /\ xnil # unknown /\ (xnil = isnil \/ ynil = isnil)
       THEN [handled |-> TRUE, case |-> "degenerate",
             kids |-> [k \in 1..Len(ds) |-> Kid(ds[k], stack)],
             conds |-> <<>>, skipped |-> SeqToSet(b.dominees) \ SeqToSet(ds)]
       ELSE NotHandled

\* a prune that pushes the hypothesis to every successor, critical edge or not
pruneCritical(fn, onlyCheck, b, stack) ==
    LET e == eq(b)
        xnil == nilnessOf(stack, e.X)
        ynil == nilnessOf(stack, e.Y)
        f == IF xnil = isnil THEN Fact(e.Y, isnil) ELSE Fact(e.X, isnil)
    IN IF e.ok /\ (xnil = isnil \/ ynil = isnil)
       THEN [handled |-> TRUE, case |-> "hypothesis",
             kids |-> [k \in 1..Len(b.dominees) |->
                         LET d == b.dominees[k]
                         IN Kid(d, IF d = e.tsucc THEN Append(stack, f)
                                   ELSE IF d = e.fsucc THEN Append(stack, negate(f))
                                   ELSE stack)],
             conds |-> <<>>, skipped |-> {}]
       ELSE NotHandled

\* a prune that takes every comparison of two known operands for degenerate
pruneKnown(fn, onlyCheck, b, stack) ==
    LET e == eq(b)
        xnil == nilnessOf(stack, e.X)
        ynil == nilnessOf(stack, e.Y)
        adj == IF (xnil = ynil) = (e.op = "EQL") THEN "tautological" ELSE "impossible"
        skip == IF xnil = ynil THEN e.fsucc ELSE e.tsucc
        ds == SelectSeq(b.dominees, LAMBDA d : ~(d = skip /\ fn.blocks[d].npreds = 1))
    IN IF e.ok /\ ynil # unknown /\ xnil # unknown
       THEN [handled |-> TRUE, case |-> "degenerate",
             kids |-> [k \in 1..Len(ds) |-> Kid(ds[k], stack)],
             conds |-> IF ~onlyCheck THEN <<Diag("cond", e.pos, adj)>> ELSE <<>>,
             skipped |-> SeqToSet(b.dominees) \ SeqToSet(ds)]
       ELSE [handled |-> FALSE, case |-> "none",
             kids |-> [k \in 1..Len(b.dominees) |-> Kid(b.dominees[k], stack)],
             conds |-> <<>>, skipped |-> {}]

\* a prune that reports the degenerate condition in both modes
pruneReporting(fn, onlyCheck, b, stack) ==
    LET e == eq(b)
        xnil == nilnessOf(stack, e.X)
        ynil == nilnessOf(stack, e.Y)
    IN IF ~e.ok THEN NotHandled
       ELSE IF ynil # unknown /\ xnil # unknown /\ (xnil = isnil \/ ynil = isnil)
       THEN LET adj == IF (xnil = ynil) = (e.op = "EQL")
                       THEN "tautological" ELSE "impossible"
                skip == IF xnil = ynil THEN e.fsucc ELSE e.tsucc
                ds == SelectSeq(b.dominees,
                         LAMBDA d : ~(d = skip /\ fn.blocks[d].npreds = 1))
            IN [handled |-> TRUE, case |-> "degenerate",
                kids |-> [k \in 1..Len(ds) |-> Kid(ds[k], stack)],
                conds |-> <<Diag("cond", e.pos, adj)>>,
                skipped |-> SeqToSet(b.dominees) \ SeqToSet(ds)]
       ELSE IF xnil = isnil \/ ynil = isnil
       THEN LET f == IF xnil = isnil THEN Fact(e.Y, isnil) ELSE Fact(e.X, isnil)
            IN [handled |-> TRUE, case |-> "hypothesis",
                kids |-> [k \in 1..Len(b.dominees) |->
                            LET d == b.dominees[k]
                            IN Kid(d, IF fn.blocks[d].npreds = 1
                                      THEN IF d = e.tsucc THEN Append(stack, f)
                                           ELSE IF d = e.fsucc
                                                THEN Append(stack, negate(f))
                                                ELSE stack
                                      ELSE stack)],
                conds |-> <<>>, skipped |-> {}]
       ELSE NotHandled

\* prune(b, stack, visit): whether it handled the dominees of b, the visits it
\* makes in order, the cond diagnostic it reports and the dominee it skipped
prune(fn, onlyCheck, b, stack) ==
    LET e == eq(b)
        xnil == nilnessOf(stack, e.X)
        ynil == nilnessOf(stack, e.Y)
    IN IF ~e.ok THEN NotHandled
       ELSE IF ynil # unknown /\ xnil # unknown /\ (xnil = isnil \/ ynil = isnil)
       THEN LET adj == IF (xnil = ynil) = (e.op = "EQL")
                       THEN "tautological" ELSE "impossible"
                skip == IF xnil = ynil THEN e.fsucc ELSE e.tsucc
                ds == SelectSeq(b.dominees,
                         LAMBDA d : ~(d = skip /\ fn.blocks[d].npreds = 1))
            IN [handled |-> TRUE, case |-> "degenerate",
                kids |-> [k \in 1..Len(ds) |-> Kid(ds[k], stack)],
                conds |-> IF ~onlyCheck THEN <<Diag("cond", e.pos, adj)>> ELSE <<>>,
                skipped |-> SeqToSet(b.dominees) \ SeqToSet(ds)]
       ELSE IF xnil = isnil \/ ynil = isnil
       THEN LET f == IF xnil = isnil THEN Fact(e.Y, isnil) ELSE Fact(e.X, isnil)
            IN [handled |-> TRUE, case |-> "hypothesis",
                kids |-> [k \in 1..Len(b.dominees) |->
                            LET d == b.dominees[k]
                            IN Kid(d, IF fn.blocks[d].npreds = 1
                                      THEN IF d = e.tsucc THEN Append(stack, f)
                                           ELSE IF d = e.fsucc
                                                THEN Append(stack, negate(f))
                                                ELSE stack
                                      ELSE stack)],
                conds |-> <<>>, skipped |-> {}]
       ELSE NotHandled

\* a descent that goes on to every dominee after prune has handled them
DescendNoReturn(fn, onlyCheck, b, stack) ==
    LET r == prune(fn, onlyCheck, b, stack)
    IN [r EXCEPT !.kids = @ \o [k \in 1..Len(b.dominees) |-> Kid(b.dominees[k], stack)]]

\* a descent along the edges of the control-flow graph
DescendSuccs(fn, onlyCheck, b, stack) ==
    LET r == prune(fn, onlyCheck, b, stack)
    IN IF r.handled THEN r
       ELSE [r EXCEPT !.kids = [k \in 1..Len(b.succs) |-> Kid(b.succs[k], stack)]]

\* the visits made for the dominees of b: prune's, or every dominee with stack
Descend(fn, onlyCheck, b, stack) ==
    LET r == prune(fn, onlyCheck, b, stack)
    IN IF r.handled THEN r
       ELSE [r EXCEPT !.kids = [k \in 1..Len(b.dominees) |-> Kid(b.dominees[k], stack)]]

\* an entry seeding that never panics: it seeds the parameters the merged
\* vector has a position for
generateStackLenient(fn, facts) ==
    LET na == IF fn.hasObj THEN facts[fn.obj].na ELSE EmptyMap
        merged == mergePosToNilnesses(na)
        m == IF Len(fn.params) < length(na) THEN Len(fn.params) ELSE length(na)
    IN [stack |-> [k \in 1..m |-> Fact(fn.params[k], merged[k])], panic |-> FALSE]

\* an entry stack without the facts known about the parameters
generateStackEmpty(fn, facts) == [stack |-> <<>>, panic |-> FALSE]

\* generateStackFromKnownFacts(fn.Object())
generateStackFromKnownFacts(fn, facts) ==
    LET na == IF fn.hasObj THEN facts[fn.obj].na ELSE EmptyMap
        merged == mergePosToNilnesses(na)
    IN IF length(na) = 0 THEN [stack |-> <<>>, panic |-> FALSE]
       ELSE IF Len(fn.params) = length(na)
       THEN [stack |-> [k \in 1..Len(fn.params) |-> Fact(fn.params[k], merged[k])],
             panic |-> FALSE]
       ELSE IF length(na) - Len(fn.params) # 1 \/ Len(fn.freeVars) = 0
       THEN [stack |-> <<>>, panic |-> TRUE]
       ELSE [stack |-> <<Fact(fn.freeVars[1], merged[1])>> \o
                       [k \in 1..Len(fn.params) |-> Fact(fn.params[k], merged[k + 1])],
             panic |-> FALSE]

(***************************************************************************)
(* The inputs: small SSA programs shaped after testdata/src/nil/main.go.   *)
(***************************************************************************)
MaxRounds == 8

ArgKinds == {"nil", "nonnil", "unk"}

\* the argument a call site passes: the nil constant, the address of a local
\* (an Alloc) or the caller's own parameter
Arg(kind, alloc, z) ==
    CASE kind = "nil" -> NilConst(1)
      [] kind = "nonnil" -> IV(alloc)
      [] OTHER -> z

FuncValues(fn) ==
    SeqToSet(fn.params) \cup SeqToSet(fn.freeVars)
    \cup {IV(i) : i \in {j \in SeqToSet(AllInstrs(fn)) : j.op \in ValueOps}}

\* the value with the given id among the values of the functions fs
ValueOfId(fs, id) ==
    CHOOSE p \in {<<k, v>> : k \in 1..Len(fs), v \in UNION {FuncValues(fs[j]) : j \in 1..Len(fs)}} :
        p[2].id = id /\ p[2] \in FuncValues(fs[p[1]])

MkProg(fs, src, extDone, extFacts) ==
    LET all == UNION {SeqToSet(AllInstrs(fs[k])) : k \in 1..Len(fs)}
        ids == {v.id : v \in UNION {FuncValues(fs[k]) : k \in 1..Len(fs)}}
    IN [funcs |-> [n \in {fs[k].name : k \in 1..Len(fs)} |->
                      CHOOSE f \in SeqToSet(fs) : f.name = n],
        src |-> src,
        instr |-> [q \in {i.pos : i \in all} |-> CHOOSE i \in all : i.pos = q],
        refs0 |-> [id \in ids |->
                      LET p == ValueOfId(fs, id) IN InitReferrers(fs[p[1]], p[2])],
        extDone |-> extDone,
        extFacts |-> extFacts,
        ownGlobals |-> {}]

Perms(S) == {q \in [1..Cardinality(S) -> S] : \A a, b \in DOMAIN q : q[a] = q[b] => a = b}

\* func w(i *int) { _ = *i }; func x2(i *int) { w(i) }; func y(z) { x2(<top>) }
ChainFuncs(top) ==
    LET al == AllocI(31)
    IN << Func("w", <<Param(101)>>,
               <<Blk(<<UnOpI(11, Param(101)), ReturnI(12, <<>>)>>, <<>>, 0, <<>>)>>),
          Func("x2", <<Param(201)>>,
               <<Blk(<<CallI(21, "Call", "w", <<Param(201)>>), ReturnI(22, <<>>)>>,
                     <<>>, 0, <<>>)>>),
          Func("y", <<Param(301)>>,
               <<Blk(<<al, StoreI(32, IV(al), Const(2)),
                       CallI(33, "Call", "x2", <<Arg(top, al, Param(301))>>),
                       ReturnI(34, <<>>)>>, <<>>, 0, <<>>)>>) >>

\* func l(x *int) { _ = *x }; func m(z) { l(<a1>); l(<a2>) }
TwoSiteFuncs(a1, a2) ==
    LET al == AllocI(43)
    IN << Func("l", <<Param(401)>>,
               <<Blk(<<UnOpI(41, Param(401)), ReturnI(42, <<>>)>>, <<>>, 0, <<>>)>>),
          Func("m", <<Param(402)>>,
               <<Blk(<<al, CallI(44, "Call", "l", <<Arg(a1, al, Param(402))>>),
                       CallI(45, "Call", "l", <<Arg(a2, al, Param(402))>>),
                       ReturnI(46, <<>>)>>, <<>>, 0, <<>>)>>) >>

\* func p() *int { _ = *q(); x := 5; return &x }
\* func q() *int { _ = *p(); return <r> }
PQFuncs(r) ==
    LET cq == CallI(51, "Call", "q", <<>>)
        cp == CallI(56, "Call", "p", <<>>)
        al == AllocI(53)
        aq == AllocI(59)
    IN << Func("p", <<>>,
               <<Blk(<<cq, UnOpI(52, IV(cq)), al, StoreI(54, IV(al), Const(2)),
                       ReturnI(55, <<IV(al)>>)>>, <<>>, 0, <<>>)>>),
          Func("q", <<>>,
               <<Blk(<<cp, UnOpI(57, IV(cp)), aq,
                       ReturnI(58, <<Arg(r, aq, NoVal)>>)>>, <<>>, 0, <<>>)>>) >>

\* func g(x *int) { _ = *x }
\* func c(z) { f2(<arg>) }   (no call when arg = "none")
\* func f2(ptr *[3]int) {
\*   if ptr <op1> nil { print(ptr[:]); g(ptr) }
\*   else { print(ptr[:]); *ptr = ...; _ = *ptr
\*          if ptr <op2> nil { _ = *ptr; g(ptr) }; _ = ptr.f; g(ptr) }
\* }
\* swap writes the comparisons as nil <op> ptr
BranchFuncs(op1, op2, swap, arg) ==
    LET al == AllocI(60)
        pt == Param(603)
        X == IF swap THEN NilConst(1) ELSE pt
        Y == IF swap THEN pt ELSE NilConst(1)
        b1 == BinOpI(61, op1, X, Y)
        b2 == BinOpI(68, op2, X, Y)
    IN << Func("g", <<Param(604)>>,
               <<Blk(<<UnOpI(78, Param(604)), ReturnI(79, <<>>)>>, <<>>, 0, <<>>)>>),
          Func("c", <<Param(602)>>,
               <<Blk((IF arg = "none" THEN <<al>>
                      ELSE <<al, CallI(600, "Call", "f2", <<Arg(arg, al, Param(602))>>)>>)
                     \o <<ReturnI(601, <<>>)>>, <<>>, 0, <<>>)>>),
          Func("f2", <<pt>>,
               << Blk(<<b1, IfI(62, b1)>>, <<2, 3>>, 0, <<2, 3, 4>>),
                  Blk(<<SliceI(63, pt, TRUE), CallI(75, "Call", "g", <<pt>>),
                        JumpI(64)>>, <<4>>, 1, <<>>),
                  Blk(<<SliceI(65, pt, TRUE), StoreI(66, pt, Const(2)), UnOpI(67, pt),
                        b2, IfI(69, b2)>>, <<5, 6>>, 1, <<5, 6>>),
                  Blk(<<ReturnI(73, <<>>)>>, <<>>, 2, <<>>),
                  Blk(<<UnOpI(70, pt), CallI(76, "Call", "g", <<pt>>), JumpI(71)>>,
                      <<6>>, 1, <<>>),
                  Blk(<<FieldAddrI(72, pt), CallI(77, "Call", "g", <<pt>>),
                        JumpI(74)>>, <<4>>, 2, <<>>) >>) >>

\* func e() { _ = *Ext() }, Ext a function of another package, and a function
\* t of a file the ignore pattern matches
ExtFuncs ==
    LET ce == CallI(81, "Call", "Ext", <<>>)
    IN << Func("e", <<>>,
               <<Blk(<<ce, UnOpI(82, IV(ce)), ReturnI(83, <<>>)>>, <<>>, 0, <<>>)>>),
          [Func("t", <<Param(801)>>,
                <<Blk(<<UnOpI(84, Param(801)), ReturnI(85, <<NilConst(1)>>)>>,
                      <<>>, 0, <<>>)>>) EXCEPT !.ignored = TRUE],
          [Func("Ext", <<>>, <<>>) EXCEPT !.pkg = "ext",
                                          !.upper = <<TRUE, FALSE, FALSE>>] >>

\* func g3() error { if <cond> { return nil }; return <dynamic call> }
\* func f3() error {
\*   err := g3()
\*   if err != nil { return err }
\*   if err != nil { err.Error() }
\*   return nil
\* }
ErrFuncs ==
    LET dc == DynCallI(191, "Call", Val("Function", 0))
        cg == CallI(91, "Call", "g3", <<>>)
        err == IV(cg)
        c1 == BinOpI(92, "NEQ", err, NilConst(1))
        c2 == BinOpI(95, "NEQ", err, NilConst(1))
    IN << Func("g3", <<>>,
               << Blk(<<JumpI(190)>>, <<2, 3>>, 0, <<2, 3>>),
                  Blk(<<ReturnI(192, <<NilConst(1)>>)>>, <<>>, 1, <<>>),
                  Blk(<<dc, ReturnI(193, <<IV(dc)>>)>>, <<>>, 1, <<>>) >>),
          Func("f3", <<>>,
               << Blk(<<cg, c1, IfI(93, c1)>>, <<2, 3>>, 0, <<2, 3>>),
                  Blk(<<ReturnI(94, <<err>>)>>, <<>>, 1, <<>>),
                  Blk(<<c2, IfI(96, c2)>>, <<4, 5>>, 1, <<4, 5>>),
                  Blk(<<[DynCallI(97, "Call", err) EXCEPT
                            !.descr = "dynamic method call"],
                        JumpI(99)>>, <<5>>, 1, <<>>),
                  Blk(<<ReturnI(98, <<NilConst(1)>>)>>, <<>>, 2, <<>>) >>) >>

\* the bound-method wrapper m$bound of method m: it has m's object, no
\* parameter of its own here and the receiver as its only free variable
Bound(m, fv) ==
    [Func(m \o "$bound", <<>>, <<>>) EXCEPT !.obj = m,
                                             !.freeVars = <<Val("FreeVar", fv)>>]

\* a call of the closure made of wrapper w and the bound receiver rcv
ClosureCallI(pos, w, rcv) ==
    [CallI(pos, "Call", w, <<>>) EXCEPT !.fnval = Val("MakeClosure", pos), !.x = rcv]

\* func (v *s) m1() { _ = *v }; func (v *s) m2() { _ = *v }
\* func o() {
\*   s1 := s{}; var s2 *s
\*   m := <rcv>.m1; m(); m = s1.m1; m()
\*   s1.m2(); s2.m2(); m = s1.m2; m(); m = <rcv>.m2; m()
\* }
\* with cfirst the two closures of m2 are called before the two static calls
OFuncs(rcv, cfirst) ==
    LET al == AllocI(720)
        r == Arg(rcv, al, NoVal)
        st == <<CallI(723, "Call", "m2", <<IV(al)>>),
                CallI(724, "Call", "m2", <<NilConst(1)>>)>>
        cl == <<ClosureCallI(725, "m2$bound", IV(al)),
                ClosureCallI(726, "m2$bound", r)>>
    IN << Func("m1", <<Param(701)>>,
               <<Blk(<<UnOpI(711, Param(701)), ReturnI(712, <<>>)>>, <<>>, 0, <<>>)>>),
          Func("m2", <<Param(703)>>,
               <<Blk(<<UnOpI(713, Param(703)), ReturnI(714, <<>>)>>, <<>>, 0, <<>>)>>),
          Func("o", <<>>,
               <<Blk(<<al, ClosureCallI(721, "m1$bound", r),
                       ClosureCallI(722, "m1$bound", IV(al))>>
                     \o (IF cfirst THEN cl \o st ELSE st \o cl)
                     \o <<ReturnI(727, <<>>)>>, <<>>, 0, <<>>)>>),
          Bound("m1", 702), Bound("m2", 704) >>

\* func (v *s) m3(p *int) { _ = *p }
\* func o3() { s1 := s{}; a := 0; m := s1.m3; m(nil); s1.m3(&a) }
\* with cfirst the method value is called before the static call; without
\* static the method is called through the method value only
M3Funcs(static, cfirst) ==
    LET al == AllocI(750)
        a == AllocI(753)
        cl == <<[ClosureCallI(751, "m3$bound", IV(al)) EXCEPT !.args = <<NilConst(1)>>]>>
        st == IF static THEN <<CallI(752, "Call", "m3", <<IV(al), IV(a)>>)>> ELSE <<>>
    IN << Func("m3", <<Param(731), Param(732)>>,
               <<Blk(<<UnOpI(741, Param(732)), ReturnI(742, <<>>)>>, <<>>, 0, <<>>)>>),
          Func("o3", <<>>,
               <<Blk(<<al, a>> \o (IF cfirst THEN cl \o st ELSE st \o cl)
                     \o <<ReturnI(754, <<>>)>>, <<>>, 0, <<>>)>>),
          [Bound("m3", 733) EXCEPT !.params = <<Param(734)>>] >>

\* an input that breaks the front-end's invariant: k2 has one parameter and
\* its second call site passes three arguments
BadArityFuncs ==
    LET al == AllocI(770)
    IN << Func("k2", <<Param(771)>>,
               <<Blk(<<UnOpI(772, Param(771)), ReturnI(773, <<>>)>>, <<>>, 0, <<>>)>>),
          Func("k3", <<>>,
               <<Blk(<<al, CallI(774, "Call", "k2", <<IV(al)>>),
                       CallI(775, "Call", "k2", <<IV(al), IV(al), IV(al)>>),
                       ReturnI(776, <<>>)>>, <<>>, 0, <<>>)>>) >>

\* func two() (*int, *int) { a := 0; return &a, nil }
\* func u2() { p, q := two(); _ = *q; _ = *p }, or, without both,
\* func u2() { _, q := two(); _ = *q }
\* with foreign, two is a function of another package
TupleFuncs(both, foreign) ==
    LET al == AllocI(960)
        c == CallI(962, "Call", "two", <<>>)
        e1 == ExtractI(963, IV(c), 0)
        e2 == ExtractI(964, IV(c), 1)
    IN << Func("u2", <<>>,
               <<Blk(<<c>> \o (IF both THEN <<e1>> ELSE <<>>)
                     \o <<e2, UnOpI(965, IV(e2))>>
                     \o (IF both THEN <<UnOpI(966, IV(e1))>> ELSE <<>>)
                     \o <<ReturnI(967, <<>>)>>, <<>>, 0, <<>>)>>),
          IF foreign
          THEN [Func("two", <<>>, <<>>) EXCEPT !.pkg = "ext"]
          ELSE Func("two", <<>>,
                    <<Blk(<<al, ReturnI(961, <<IV(al), NilConst(1)>>)>>, <<>>, 0, <<>>)>>) >>

\* func j4(x *int) { _ = *x }; func k4() { a := 0; j4(&a) }, and in a file
\* that the ignore pattern matches: func t4() *int { j4(nil); return nil }
IgnoreFuncs ==
    LET al == AllocI(985)
    IN << Func("j4", <<Param(980)>>,
               <<Blk(<<UnOpI(981, Param(980)), ReturnI(982, <<>>)>>, <<>>, 0, <<>>)>>),
          [Func("t4", <<>>,
                <<Blk(<<CallI(983, "Call", "j4", <<NilConst(1)>>),
                        ReturnI(984, <<NilConst(1)>>)>>, <<>>, 0, <<>>)>>)
             EXCEPT !.ignored = TRUE],
          Func("k4", <<>>,
               <<Blk(<<al, CallI(986, "Call", "j4", <<IV(al)>>), ReturnI(987, <<>>)>>,
                     <<>>, 0, <<>>)>>) >>

\* *ssa.IndexAddr, which the instruction switch has no case for
IndexAddrI(pos, x) == [INSTR EXCEPT !.pos = pos, !.op = "IndexAddr", !.x = x]

\* one function with one instruction of each kind the Diagnose switch looks
\* at, and of the kinds it passes over, each on an operand of its own: the
\* nil constant, a parameter of the function (which nobody calls) or the
\* address of a local
KindFuncs(opnd) ==
    LET al == AllocI(1200)
        v(k) == CASE opnd = "nil" -> NilConst(1100 + k)
                  [] opnd = "unk" -> Param(1100 + k)
                  [] OTHER -> IV(al)
    IN << Func("kinds", IF opnd = "unk" THEN [k \in 1..13 |-> Param(1100 + k)] ELSE <<>>,
               <<Blk(<<al,
                       FieldAddrI(1001, v(1)),
                       MapUpdateI(1002, v(2)),
                       SliceI(1003, v(3), TRUE),
                       SliceI(1004, v(4), FALSE),
                       StoreI(1005, v(5), NilConst(1)),
                       TypeAssertI(1006, v(6), FALSE),
                       TypeAssertI(1007, v(7), TRUE),
                       UnOpI(1008, v(8)),
                       [UnOpI(1009, v(9)) EXCEPT !.flag = FALSE],
                       DynCallI(1010, "Call", v(10)),
                       DynCallI(1011, "Go", v(11)),
                       DynCallI(1012, "Defer", v(12)),
                       IndexAddrI(1013, v(13)),
                       ReturnI(1014, <<>>)>>, <<>>, 0, <<>>)>>) >>

\* func h6(p, q *int) { if p <op> q { _ = *p } else { _ = *q } }
\* func c6(z *int) { h6(<a1>, <a2>) }
CmpFuncs(op, a1, a2) ==
    LET al == AllocI(1400)
        p == Param(1401)
        q == Param(1402)
        b == BinOpI(1403, op, p, q)
    IN << Func("h6", <<p, q>>,
               << Blk(<<b, IfI(1404, b)>>, <<2, 3>>, 0, <<2, 3, 4>>),
                  Blk(<<UnOpI(1405, p), JumpI(1406)>>, <<4>>, 1, <<>>),
                  Blk(<<UnOpI(1407, q), JumpI(1408)>>, <<4>>, 1, <<>>),
                  Blk(<<ReturnI(1409, <<>>)>>, <<>>, 2, <<>>) >>),
          Func("c6", <<Param(1410)>>,
               <<Blk(<<al, CallI(1411, "Call", "h6",
                                 <<Arg(a1, al, Param(1410)), Arg(a2, al, Param(1410))>>),
                       ReturnI(1412, <<>>)>>, <<>>, 0, <<>>)>>) >>

\* func s9(p, q **int) { *q = *p }: the load of p, then the store to q of
\* the value loaded
StoreFuncs ==
    LET ld == UnOpI(1703, Param(1701))
    IN << Func("s9", <<Param(1701), Param(1702)>>,
               <<Blk(<<ld, StoreI(1704, Param(1702), IV(ld)), ReturnI(1705, <<>>)>>,
                     <<>>, 0, <<>>)>>) >>

\* func z7() {}; func a7() { z7(); z7() }; func b7() { z7() }
ZeroArgFuncs ==
    << Func("z7", <<>>, <<Blk(<<ReturnI(1500, <<>>)>>, <<>>, 0, <<>>)>>),
       Func("a7", <<>>,
            <<Blk(<<CallI(1501, "Call", "z7", <<>>), CallI(1502, "Call", "z7", <<>>),
                    ReturnI(1503, <<>>)>>, <<>>, 0, <<>>)>>),
       Func("b7", <<>>,
            <<Blk(<<CallI(1504, "Call", "z7", <<>>), ReturnI(1505, <<>>)>>,
                  <<>>, 0, <<>>)>>) >>

\* func h8(q *int) {}
\* func (v *s) m8(p *int) { h8(p) }
\* func o8(z *int) { s1 := s{}; m := s1.m8; s1.m8(nil); m(z) }
\* func t8() { o8(nil) }
MethodValueFuncs ==
    LET al == AllocI(1610)
    IN << Func("h8", <<Param(1601)>>,
               <<Blk(<<ReturnI(1602, <<>>)>>, <<>>, 0, <<>>)>>),
          Func("m8", <<Param(1603), Param(1604)>>,
               <<Blk(<<CallI(1605, "Call", "h8", <<Param(1604)>>),
                       ReturnI(1606, <<>>)>>, <<>>, 0, <<>>)>>),
          Func("o8", <<Param(1609)>>,
               <<Blk(<<al, CallI(1611, "Call", "m8", <<IV(al), NilConst(1)>>),
                       [ClosureCallI(1612, "m8$bound", IV(al)) EXCEPT
                           !.args = <<Param(1609)>>],
                       ReturnI(1613, <<>>)>>, <<>>, 0, <<>>)>>),
          Func("t8", <<>>,
               <<Blk(<<CallI(1614, "Call", "o8", <<NilConst(1)>>),
                       ReturnI(1615, <<>>)>>, <<>>, 0, <<>>)>>),
          [Bound("m8", 1607) EXCEPT !.params = <<Param(1608)>>] >>

\* func r5(p *int) { defer d5(); _ = *p }: blocks[1] is fn.Recover, the block
\* control resumes at after a recovered panic; no block dominates it and it
\* is in nobody's Dominees()
RecoverFuncs ==
    << Func("d5", <<>>, <<Blk(<<ReturnI(1307, <<>>)>>, <<>>, 0, <<>>)>>),
       Func("r5", <<Param(1301)>>,
            << Blk(<<CallI(1302, "Defer", "d5", <<>>), UnOpI(1303, Param(1301)),
                     ReturnI(1304, <<>>)>>, <<>>, 0, <<>>),
               Blk(<<UnOpI(1305, NilConst(1)), ReturnI(1306, <<>>)>>,
                   <<>>, 0, <<>>) >>) >>

\* func T(i *int) { _ = *i }; func u(i *int) { _ = *i }
\* func camelCase(i *int) { _ = *i }: none of them is called
ExportFuncs ==
    << [Func("T", <<Param(751)>>,
             <<Blk(<<UnOpI(761, Param(751)), ReturnI(762, <<>>)>>, <<>>, 0, <<>>)>>)
          EXCEPT !.upper = <<TRUE>>],
       Func("u", <<Param(752)>>,
            <<Blk(<<UnOpI(763, Param(752)), ReturnI(764, <<>>)>>, <<>>, 0, <<>>)>>),
       [Func("camelCase", <<Param(753)>>,
             <<Blk(<<UnOpI(765, Param(753)), ReturnI(766, <<>>)>>, <<>>, 0, <<>>)>>)
          EXCEPT !.upper = <<FALSE, FALSE, FALSE, FALSE, FALSE, TRUE, FALSE, FALSE,
                             FALSE>>] >>

\* var keywords map[string]string
\* func v() { keywords = make(...); keywords["OK"] = "OK"; keywords["OK"] = "OK" }
\* func v2() { keywords["OK"] = "OK" }
GlobalFuncs ==
    LET kw == Val("Global", 800)
        l1 == UnOpI(802, kw)
        l2 == UnOpI(804, kw)
        l3 == UnOpI(811, kw)
    IN << Func("v", <<>>,
               <<Blk(<<StoreI(801, kw, Val("MakeMap", 807)), l1, MapUpdateI(803, IV(l1)),
                       l2, MapUpdateI(805, IV(l2)), ReturnI(806, <<>>)>>,
                     <<>>, 0, <<>>)>>),
          Func("v2", <<>>,
               <<Blk(<<l3, MapUpdateI(812, IV(l3)), ReturnI(813, <<>>)>>,
                     <<>>, 0, <<>>)>>) >>

\* func last(x *node) { for { x = x.next } }: the phi of x refers to the load,
\* the load to the field address and the field address to the phi
LoopFuncs ==
    LET x == Param(901)
        t3 == UnOpI(913, Val("FieldAddr", 912))
        t1 == PhiI(911, <<x, IV(t3)>>)
        t2 == FieldAddrI(912, IV(t1))
    IN << Func("last", <<x>>,
               <<Blk(<<JumpI(910)>>, <<2>>, 0, <<2>>),
                 Blk(<<t1, t2, t3, JumpI(914)>>, <<2>>, 2, <<>>)>>) >>

NoExt == [n \in {} |-> EmptyInfo]

Programs ==
    {MkProg(ChainFuncs(top), o, TRUE, NoExt) :
        top \in ArgKinds, o \in Perms({"w", "x2", "y"})}
    \cup {MkProg(TwoSiteFuncs(a1, a2), o, TRUE, NoExt) :
        a1 \in ArgKinds, a2 \in ArgKinds, o \in Perms({"l", "m"})}
    \cup {MkProg(PQFuncs(r), o, TRUE, NoExt) :
        r \in {"nil", "nonnil"}, o \in Perms({"p", "q"})}
    \cup {MkProg(BranchFuncs(op1, op2, swap, arg), o, TRUE, NoExt) :
        op1 \in {"EQL", "NEQ"}, op2 \in {"EQL", "NEQ"}, swap \in BOOLEAN,
        arg \in ArgKinds \cup {"none"}, o \in Perms({"c", "f2", "g"})}
    \cup {MkProg(ErrFuncs, o, TRUE, NoExt) : o \in Perms({"g3", "f3"})}
    \cup {[MkProg(GlobalFuncs, o, TRUE, NoExt) EXCEPT !.ownGlobals = own] :
        own \in {{}, {800}}, o \in Perms({"v", "v2"})}
    \cup {MkProg(LoopFuncs, <<"last">>, TRUE, NoExt)}
    \cup {MkProg(RecoverFuncs, o, TRUE, NoExt) : o \in Perms({"d5", "r5"})}
    \cup {MkProg(MethodValueFuncs, o, TRUE, NoExt) :
        o \in Perms({"h8", "m8", "o8", "t8"})}
    \cup {MkProg(ZeroArgFuncs, o, TRUE, NoExt) : o \in Perms({"z7", "a7", "b7"})}
    \cup {MkProg(StoreFuncs, <<"s9">>, TRUE, NoExt)}
    \cup {MkProg(CmpFuncs(op, a1, a2), o, TRUE, NoExt) :
        op \in {"EQL", "NEQ"}, a1 \in ArgKinds, a2 \in ArgKinds,
        o \in Perms({"h6", "c6"})}
    \cup {MkProg(ExportFuncs, o, TRUE, NoExt) : o \in Perms({"T", "u", "camelCase"})}
    \cup {MkProg(OFuncs(rcv, cfirst), o, TRUE, NoExt) :
        rcv \in {"nil", "nonnil"}, cfirst \in BOOLEAN, o \in Perms({"m1", "m2", "o"})}
    \cup {MkProg(M3Funcs(static, cfirst), o, TRUE, NoExt) :
        static \in BOOLEAN, cfirst \in BOOLEAN, o \in Perms({"m3", "o3"})}
    \cup {MkProg(BadArityFuncs, o, TRUE, NoExt) : o \in Perms({"k2", "k3"})}
    \cup {MkProg(KindFuncs(opnd), <<"kinds">>, TRUE, NoExt) : opnd \in ArgKinds}
    \cup {MkProg(IgnoreFuncs, o, TRUE, NoExt) : o \in Perms({"j4", "t4", "k4"})}
    \cup {MkProg(TupleFuncs(both, FALSE), o, TRUE, NoExt) :
        both \in BOOLEAN, o \in Perms({"u2", "two"})}
    \cup {MkProg(TupleFuncs(both, TRUE), <<"u2">>, TRUE,
                 [n \in {"two"} |->
                    [EmptyInfo EXCEPT !.nr = MapPut(EmptyMap, 961, <<isnonnil, isnil>>)]]) :
        both \in BOOLEAN}
    \cup {MkProg(ExtFuncs, o, d, [n \in {"Ext"} |->
                    [EmptyInfo EXCEPT !.nr = IF d THEN MapPut(EmptyMap, 900, <<r>>)
                                              ELSE EmptyMap]]) :
        d \in BOOLEAN, r \in {isnil, isnonnil}, o \in Perms({"e", "t"})}

\* visit(b, stack) for the visits wk still to make, as one computation: the
\* scan state when the walk returns or panics
RECURSIVE visitAll(_, _, _, _, _, _)
visitAll(P, fn, oc, wk, sn, S) ==
    IF wk = <<>> THEN S
    ELSE IF Head(wk).b \in sn THEN visitAll(P, fn, oc, Tail(wk), sn, S)
    ELSE LET b == fn.blocks[Head(wk).b]
             T == Scan(P, fn, oc, b.instrs, 1, [S EXCEPT !.stack = Head(wk).stack])
             r == Descend(fn, oc, b, T.stack)
         IN IF T.panic THEN T
            ELSE visitAll(P, fn, oc, r.kids \o Tail(wk), sn \cup {Head(wk).b},
                          [T EXCEPT !.diags = @ \o r.conds])

\* checkFunc(pass, fn, onlyCheck, alreadyReported) as one computation; upd
\* accumulates what run's updated flag gets from it
checkFunc(P, fn, oc, S) ==
    LET g == generateStackFromKnownFacts(fn, S.facts)
    IN IF fn.blocks = <<>> THEN S
       ELSE IF g.panic THEN [S EXCEPT !.panic = TRUE]
       ELSE visitAll(P, fn, oc, <<Kid(1, g.stack)>>, {}, S)

\* the facts after one Summarize walk of fn started with the facts F and the
\* referrer lists R
Summarized(P, fn, F, R) ==
    checkFunc(P, fn, TRUE,
              [stack |-> <<>>, facts |-> F, upd |-> FALSE, diags |-> <<>>, ar |-> {},
               gr |-> {}, refs |-> R, panic |-> FALSE, dlog |-> {}]).facts

\* "for _, fn := range ssainput.SrcFuncs" of run, from the k-th function on
RECURSIVE rangeSrcFuncs(_, _, _, _, _)
rangeSrcFuncs(P, order, k, oc, S) ==
    IF k > Len(order) \/ S.panic THEN S
    ELSE rangeSrcFuncs(P, order, k + 1, oc,
                       IF P.funcs[order[k]].ignored THEN S
                       ELSE checkFunc(P, P.funcs[order[k]], oc, S))

\* run's "for true" loop from round r on; it is left with upd set when the
\* round MaxRounds still updated something
RECURSIVE fixpointLoop(_, _, _, _)
fixpointLoop(P, order, r, S) ==
    LET T == rangeSrcFuncs(P, order, 1, TRUE, [S EXCEPT !.upd = FALSE])
    IN IF T.panic \/ ~T.upd \/ r >= MaxRounds THEN T
       ELSE fixpointLoop(P, order, r + 1, T)

\* run(pass) with the source functions in the given order, as one
\* computation: ended tells that it returned, facts and diags are the
\* object facts and the diagnostics when it did
run(P, order) ==
    LET S0 == [stack |-> <<>>,
               facts |-> [o \in DOMAIN P.funcs |->
                            IF o \in DOMAIN P.extFacts THEN P.extFacts[o] ELSE EmptyInfo],
               upd |-> FALSE, diags |-> <<>>, ar |-> {}, gr |-> {}, refs |-> P.refs0,
               panic |-> FALSE, dlog |-> {}]
        L == fixpointLoop(P, order, 1, S0)
        D == rangeSrcFuncs(P, order, 1, FALSE, L)
    IN IF L.panic \/ L.upd THEN [ended |-> FALSE, facts |-> L.facts, diags |-> L.diags]
       ELSE [ended |-> ~D.panic, facts |-> D.facts, diags |-> D.diags]

(***************************************************************************)
(* run(pass): the state of the driver and of the walk in progress          *)
(***************************************************************************)
VARIABLES
    prog,      \* the SSA input and the host's facts about other packages
    refs,      \* the referrer list of every value that has one
    facts,     \* the object facts (functionInfo) by function object
    done,      \* how many times pkgDone was exported
    pc,        \* "summarize", "diagnose", "done" or "panic"
    round,     \* the iteration of the fixpoint loop in progress
    fidx,      \* index in SrcFuncs of the function to walk next
    updated,   \* run's updated flag of the round
    walking,   \* whether a checkFunc call is in progress
    work,      \* the pending visit calls of the walk, next first
    seen,      \* seen[] of the walk
    wupd,      \* checkFunc's updated flag
    diags,     \* the diagnostics reported, in order
    ar,        \* alreadyReported
    gr,        \* the globals with an alreadyReportedGlobal fact
    dlog,      \* for each nilderef report, its operand and stack
    last,      \* the last visit: its block, stacks and the visits it made
    skipped,   \* the dominees pruned so far in the walk
    entry,     \* the stack the walk in progress started from
    facts0,    \* the facts when the walk in progress started
    pass1,     \* the number of diagnostics when the Diagnose loop was run again, or -1
    calc,      \* the last application of a function of nilness.go: its inputs and results
    mem,       \* the fact stacks of a walk as Go slices: backing arrays and visit frames
    mainst     \* Main of the call-graph analysis: its goroutines, passes and wait group

vars == <<prog, refs, facts, done, pc, round, fidx, updated, walking, work,
          seen, wupd, diags, ar, gr, dlog, last, skipped, entry, facts0, pass1,
          calc, mem, mainst>>

NoCalc == [op |-> "none"]
NoMain == [graph |-> 0, pc |-> "off", wg |-> 0, gs |-> <<>>, printed |-> <<>>]
NoMem == [heap |-> <<>>, frames |-> <<>>, tree |-> <<>>, started |-> FALSE]

NoVisit == [fn |-> "", b |-> 0, onlyCheck |-> FALSE, stackIn |-> <<>>,
            stackOut |-> <<>>, handled |-> FALSE, case |-> "none",
            kids |-> <<>>, conds |-> <<>>, skipped |-> {}]

Init ==
    /\ prog \in Programs
    /\ refs = prog.refs0
    /\ facts = [o \in DOMAIN prog.funcs |->
                   IF o \in DOMAIN prog.extFacts THEN prog.extFacts[o] ELSE EmptyInfo]
    /\ done = 0
    /\ pc = "summarize"
    /\ round = 1
    /\ fidx = 1
    /\ updated = FALSE
    /\ walking = FALSE
    /\ work = <<>>
    /\ seen = {}
    /\ wupd = FALSE
    /\ diags = <<>>
    /\ ar = {}
    /\ gr = {}
    /\ dlog = {}
    /\ last = NoVisit
    /\ skipped = {}
    /\ entry = <<>>
    /\ facts0 = facts
    /\ pass1 = -1
    /\ calc = NoCalc
    /\ mem = NoMem
    /\ mainst = NoMain

onlyCheck == pc = "summarize"
CurFn == prog.funcs[prog.src[fidx]]

\* a run that walks the functions isIgnoredFunction holds of
WalkIgnored ==
    /\ pc \in {"summarize", "diagnose"}
    /\ ~walking
    /\ fidx <= Len(prog.src)
    /\ CurFn.ignored
    /\ walking' = TRUE
    /\ work' = <<Kid(1, <<>>)>>
    /\ seen' = {}
    /\ wupd' = FALSE
    /\ skipped' = {}
    /\ entry' = <<>>
    /\ facts0' = facts
    /\ UNCHANGED <<mainst, mem, calc, pass1, prog, refs, facts, done, pc, round, fidx, updated, diags,
                   ar, gr, dlog, last>>

\* run: "if isIgnoredFunction(fn) { continue }"
SkipIgnored ==
    /\ pc \in {"summarize", "diagnose"}
    /\ ~walking
    /\ fidx <= Len(prog.src)
    /\ CurFn.ignored
    /\ fidx' = fidx + 1
    /\ UNCHANGED <<mainst, mem, calc, pass1, prog, refs, facts, done, pc, round, updated, walking, work,
                   seen, wupd, diags, ar, gr, dlog, last, skipped, entry, facts0>>

\* checkFunc up to the visit of the entry block: a function without blocks
\* returns at once, otherwise the entry stack is generated
BeginWalk ==
    /\ pc \in {"summarize", "diagnose"}
    /\ ~walking
    /\ fidx <= Len(prog.src)
    /\ ~CurFn.ignored
    /\ LET g == generateStackFromKnownFacts(CurFn, facts)
       IN IF CurFn.blocks = <<>>
          THEN /\ fidx' = fidx + 1
               /\ UNCHANGED <<pc, walking, work, seen, wupd, skipped, entry, facts0>>
          ELSE IF g.panic
          THEN /\ pc' = "panic"
               /\ UNCHANGED <<fidx, walking, work, seen, wupd, skipped, entry, facts0>>
          ELSE /\ walking' = TRUE
               /\ work' = <<Kid(1, g.stack)>>
               /\ seen' = {}
               /\ wupd' = FALSE
               /\ skipped' = {}
               /\ entry' = g.stack
               /\ facts0' = facts
               /\ UNCHANGED <<pc, fidx>>
    /\ UNCHANGED <<mainst, mem, calc, pass1, prog, refs, facts, done, round, updated, diags, ar, gr, dlog, last>>

\* visit(b, stack): the instruction scan of one block, then prune or the
\* descent into every dominee
VisitBlock ==
    /\ walking
    /\ work # <<>>
    /\ LET it == Head(work)
           fn == CurFn
           b == fn.blocks[it.b]
           S0 == [stack |-> it.stack, facts |-> facts, upd |-> wupd, diags |-> diags,
                  ar |-> ar, gr |-> gr, refs |-> refs, panic |-> FALSE, dlog |-> dlog]
           S == Scan(prog, fn, onlyCheck, b.instrs, 1, S0)
           r == Descend(fn, onlyCheck, b, S.stack)
       IN IF it.b \in seen
          THEN /\ work' = Tail(work)
               /\ UNCHANGED <<refs, facts, pc, walking, seen, wupd, diags, ar, gr,
                              dlog, last, skipped>>
          ELSE /\ seen' = seen \cup {it.b}
               /\ facts' = S.facts
               /\ wupd' = S.upd
               /\ ar' = S.ar
               /\ gr' = S.gr
               /\ refs' = S.refs
               /\ dlog' = S.dlog
               /\ IF S.panic
                  THEN /\ pc' = "panic"
                       /\ walking' = FALSE
                       /\ work' = <<>>
                       /\ diags' = S.diags
                       /\ UNCHANGED <<last, skipped>>
                  ELSE /\ work' = r.kids \o Tail(work)
                       /\ diags' = S.diags \o r.conds
                       /\ skipped' = skipped \cup r.skipped
                       /\ last' = [fn |-> fn.name, b |-> it.b, onlyCheck |-> onlyCheck,
                                   stackIn |-> it.stack, stackOut |-> S.stack,
                                   handled |-> r.handled, case |-> r.case,
                                   kids |-> r.kids, conds |-> r.conds,
                                   skipped |-> r.skipped]
                       /\ UNCHANGED <<pc, walking>>
    /\ UNCHANGED <<mainst, mem, calc, pass1, prog, done, round, fidx, updated, entry, facts0>>

\* checkFunc returns; run: "if checkFunc(...) { updated = true }"
EndWalk ==
    /\ walking
    /\ work = <<>>
    /\ walking' = FALSE
    /\ updated' = (updated \/ (onlyCheck /\ wupd))
    /\ fidx' = fidx + 1
    /\ UNCHANGED <<mainst, mem, calc, pass1, prog, refs, facts, done, pc, round, work, seen, wupd, diags,
                   ar, gr, dlog, last, skipped, entry, facts0>>

\* run: the end of a round that updated something
NextRound ==
    /\ pc = "summarize"
    /\ ~walking
    /\ fidx > Len(prog.src)
    /\ updated
    /\ round < MaxRounds
    /\ round' = round + 1
    /\ fidx' = 1
    /\ updated' = FALSE
    /\ UNCHANGED <<mainst, mem, calc, pass1, prog, refs, facts, done, pc, walking, work, seen, wupd, diags,
                   ar, gr, dlog, last, skipped, entry, facts0>>

\* a run that leaves the fixpoint loop and exports nothing
LeaveLoop ==
    /\ pc = "summarize"
    /\ ~walking
    /\ fidx > Len(prog.src)
    /\ ~updated
    /\ pc' = "diagnose"
    /\ fidx' = 1
    /\ UNCHANGED <<mainst, mem, calc, pass1, prog, refs, facts, done, round, updated, walking, work, seen,
                   wupd, diags, ar, gr, dlog, last, skipped, entry, facts0>>

\* run: "if !updated { break }", then pass.ExportPackageFact(&pkgDone{})
ExportDone ==
    /\ pc = "summarize"
    /\ ~walking
    /\ fidx > Len(prog.src)
    /\ ~updated
    /\ done' = done + 1
    /\ pc' = "diagnose"
    /\ fidx' = 1
    /\ UNCHANGED <<mainst, mem, calc, pass1, prog, refs, facts, round, updated, walking, work, seen, wupd,
                   diags, ar, gr, dlog, last, skipped, entry, facts0>>

\* run returns
Finish ==
    /\ pc = "diagnose"
    /\ ~walking
    /\ fidx > Len(prog.src)
    /\ pc' = "done"
    /\ UNCHANGED <<mainst, mem, calc, pass1, prog, refs, facts, done, round, fidx, updated, walking, work,
                   seen, wupd, diags, ar, gr, dlog, last, skipped, entry, facts0>>

Next == SkipIgnored \/ BeginWalk \/ VisitBlock \/ EndWalk \/ NextRound
        \/ ExportDone \/ Finish

Spec == Init /\ [][Next]_vars

(***************************************************************************)
(* The second checkFunc of knil.go (lines 897-1439): it differs from the   *)
(* first in the entry of the walks only                                    *)
(***************************************************************************)
\* isExported(fo.Name())
isExportedFirst(fn) == fn.upper[1]
isExported(fn) == \E k \in 1..Len(fn.upper) : fn.upper[k]

\* checkFunc up to the visit of the entry block: a function that has an
\* object and no recorded arguments is visited with a nil stack, in Diagnose
\* mode only if isExported
BeginWalkV2 ==
    /\ pc \in {"summarize", "diagnose"}
    /\ ~walking
    /\ fidx <= Len(prog.src)
    /\ ~CurFn.ignored
    /\ LET none == CurFn.hasObj /\ length(facts[CurFn.obj].na) = 0
           g == IF ~CurFn.hasObj \/ none THEN [stack |-> <<>>, panic |-> FALSE]
                ELSE generateStackFromKnownFacts(CurFn, facts)
       IN IF CurFn.blocks = <<>> \/ (pc = "diagnose" /\ none /\ ~isExported(CurFn))
          THEN /\ fidx' = fidx + 1
               /\ UNCHANGED <<pc, walking, work, seen, wupd, skipped, entry, facts0>>
          ELSE IF g.panic
          THEN /\ pc' = "panic"
               /\ UNCHANGED <<fidx, walking, work, seen, wupd, skipped, entry, facts0>>
          ELSE /\ walking' = TRUE
               /\ work' = <<Kid(1, g.stack)>>
               /\ seen' = {}
               /\ wupd' = FALSE
               /\ skipped' = {}
               /\ entry' = g.stack
               /\ facts0' = facts
               /\ UNCHANGED <<pc, fidx>>
    /\ UNCHANGED <<mainst, mem, calc, pass1, prog, refs, facts, done, round, updated, diags, ar, gr, dlog, last>>

NextV2 == SkipIgnored \/ BeginWalkV2 \/ VisitBlock \/ EndWalk \/ NextRound
          \/ ExportDone \/ Finish

SpecV2 == Init /\ [][NextV2]_vars

(***************************************************************************)
(* run's Diagnose loop executed a second time over the same functions,     *)
(* with the facts, alreadyReported and the alreadyReportedGlobal facts of  *)
(* the first execution                                                     *)
(***************************************************************************)
Rewalk ==
    /\ pc = "done"
    /\ pass1 = -1
    /\ pass1' = Len(diags)
    /\ pc' = "diagnose"
    /\ fidx' = 1
    /\ UNCHANGED <<mainst, mem, calc, prog, refs, facts, done, round, updated, walking, work,
                   seen, wupd, diags, ar, gr, dlog, last, skipped, entry, facts0>>

NextRewalk == Next \/ Rewalk

SpecRewalk == Init /\ [][NextRewalk]_vars

(***************************************************************************)
(* The functions of nilness.go applied to inputs of bounded size, before   *)
(* any walk: calc records the inputs and what the function returned        *)
(***************************************************************************)
MaxLen == 2

\* the nilnesses (vectors) of at most MaxLen entries
Vectors == UNION {[1..n -> Nilness] : n \in 0..MaxLen}

\* one value of each case of nilnessOf's switch: the nil constant, another
\* constant, two intrinsically non-nil values, a parameter and a call value
LookupValues == {NilConst(1), Const(2), Val("Alloc", 3), Val("MakeMap", 4),
                 Param(5), Val("Call", 6)}

RECURSIVE StacksOf(_)
StacksOf(n) ==
    IF n = 0 THEN {<<>>}
    ELSE LET shorter == StacksOf(n - 1)
         IN  shorter \cup {Append(st, Fact(v, k)) :
                              st \in {t \in shorter : Len(t) = n - 1},
                              v \in LookupValues, k \in Nilness}

\* the fact stacks of at most MaxLen facts
Stacks == StacksOf(MaxLen)

\* one application per behaviour: the functions keep no state between calls
Untouched == calc = NoCalc /\ UNCHANGED <<mainst, mem, pass1, prog, refs, facts, done, pc, round,
                                          fidx, updated,
                                          walking, work, seen, wupd, diags, ar, gr,
                                          dlog, last, skipped, entry, facts0>>

\* merge(a, b), merge(b, a) and both groupings of a, b, c
ApplyMerge ==
    \E a \in Nilness, b \in Nilness, c \in Nilness :
        /\ calc' = [op |-> "merge", a |-> a, b |-> b, c |-> c,
                    ab |-> merge(a, b), ba |-> merge(b, a),
                    left |-> merge(merge(a, b), c),
                    right |-> merge(a, merge(b, c))]
        /\ Untouched

\* f.negate() and f.negate().negate()
ApplyNegate ==
    \E v \in LookupValues, n \in Nilness :
        /\ calc' = [op |-> "negate", f |-> Fact(v, n), out |-> negate(Fact(v, n)),
                    twice |-> negate(negate(Fact(v, n)))]
        /\ Untouched

\* mergeNilnesses(na, carg)
ApplyMergeNilnesses ==
    \E na \in Vectors, carg \in Vectors :
        /\ calc' = [op |-> "mergeNilnesses", na |-> na, carg |-> carg,
                    out |-> mergeNilnesses(na, carg)]
        /\ Untouched

\* nilnessOf(stack, v)
ApplyNilnessOf ==
    \E stack \in Stacks, v \in LookupValues :
        /\ calc' = [op |-> "nilnessOf", stack |-> stack, v |-> v,
                    out |-> nilnessOf(stack, v)]
        /\ Untouched

InitNilness == Init /\ prog = MkProg(LoopFuncs, <<"last">>, TRUE, NoExt)

NextNilness == ApplyMerge \/ ApplyNegate \/ ApplyMergeNilnesses \/ ApplyNilnessOf

SpecNilness == InitNilness /\ [][NextNilness]_vars

(***************************************************************************)
(* The fact stacks of one walk as the Go slices they are.  A slice is a    *)
(* header [a, len, cap] over the backing array heap[a]; visit receives a   *)
(* header by value, append writes the slot after len in place while        *)
(* len < cap and moves to a fresh array otherwise.  An entry records the   *)
(* block it was pushed in (by) and the block it was pushed for (for): a    *)
(* fact pushed while scanning b is for b, a hypothesis of prune is for the *)
(* successor it is handed to, the facts of the parameters are for block 1. *)
(* frames is the chain of visit calls in progress; want is, per frame, the *)
(* sequence of the facts pushed on the way to it.                          *)
(***************************************************************************)
\* the capacity of make([]nilnessOfValue, 0, 20), scaled down so that append
\* both writes in place and reallocates
StackCap == 2

\* the most facts one block pushes while its instructions are scanned
MaxPush == 2

NoEntry == [by |-> 0, for |-> 0]

\* dominator trees, as the Dominees() of each block: the tree of f2, a
\* chain, and an entry block with one dominee
Trees == { <<<<2, 3, 4>>, <<>>, <<5, 6>>, <<>>, <<>>, <<>>>>,
           <<<<2>>, <<3>>, <<4>>, <<>>>>,
           <<<<2>>, <<>>>> }

\* append(sl, e)
append(heap, sl, e) ==
    IF sl.len < sl.cap
    THEN [heap |-> [heap EXCEPT ![sl.a][sl.len + 1] = e],
          sl |-> [sl EXCEPT !.len = @ + 1]]
    ELSE LET newcap == IF sl.cap = 0 THEN 1 ELSE 2 * sl.cap
             arr == [k \in 1..newcap |->
                        IF k <= sl.len THEN heap[sl.a][k]
                        ELSE IF k = sl.len + 1 THEN e ELSE NoEntry]
         IN [heap |-> Append(heap, arr),
             sl |-> [a |-> Len(heap) + 1, len |-> sl.len + 1, cap |-> newcap]]

\* the elements a slice shows
Elems(heap, sl) == [k \in 1..sl.len |-> heap[sl.a][k]]

Frame(b, sl, want) == [b |-> b, sl |-> sl, kid |-> 0, pushed |-> 0, want |-> want]

RunVars == <<calc, pass1, prog, refs, facts, done, pc, round, fidx, updated, walking,
             work, seen, wupd, diags, ar, gr, dlog, last, skipped, entry, facts0>>

RunUntouched == UNCHANGED <<RunVars, mainst>>

TopFrame == mem.frames[Len(mem.frames)]

\* stack := generateStackFromKnownFacts(fn.Object()); visit(bs[0], stack),
\* with or without a fact for a parameter
StartVisit ==
    /\ ~mem.started
    /\ \E t \in Trees, seeded \in BOOLEAN :
          LET made == [a |-> 1, len |-> 0, cap |-> StackCap]
              h0 == <<[k \in 1..StackCap |-> NoEntry]>>
              r == IF seeded THEN append(h0, made, [by |-> 1, for |-> 1])
                   ELSE [heap |-> h0, sl |-> made]
          IN mem' = [heap |-> r.heap, tree |-> t, started |-> TRUE,
                     frames |-> <<Frame(1, r.sl, Elems(r.heap, r.sl))>>]
    /\ RunUntouched

\* stack = append(stack, nilnessOfValue{v, merged[0]}) while scanning the
\* instructions of the block
ScanPush ==
    /\ mem.frames # <<>>
    /\ TopFrame.kid = 0 /\ TopFrame.pushed < MaxPush
    /\ LET f == TopFrame
           e == [by |-> f.b, for |-> f.b]
           r == append(mem.heap, f.sl, e)
       IN mem' = [mem EXCEPT !.heap = r.heap,
                             !.frames[Len(mem.frames)] =
                                 [f EXCEPT !.sl = r.sl, !.pushed = @ + 1,
                                           !.want = Append(@, e)]]
    /\ RunUntouched

\* the instructions are scanned: prune, or the loop over the dominees
EndScan ==
    /\ mem.frames # <<>>
    /\ TopFrame.kid = 0
    /\ mem' = [mem EXCEPT !.frames[Len(mem.frames)].kid = 1]
    /\ RunUntouched

\* a walk that pushes the hypothesis on the stack of the visiting block
VisitDomineeShared ==
    /\ mem.frames # <<>>
    /\ TopFrame.kid \in 1..Len(mem.tree[TopFrame.b])
    /\ \E hyp \in BOOLEAN :
          LET f == TopFrame
              d == mem.tree[f.b][f.kid]
              e == [by |-> f.b, for |-> d]
              r == IF hyp THEN append(mem.heap, f.sl, e)
                   ELSE [heap |-> mem.heap, sl |-> f.sl]
          IN mem' = [mem EXCEPT
                       !.heap = r.heap,
                       !.frames = [@ EXCEPT ![Len(mem.frames)].kid = f.kid + 1,
                                            ![Len(mem.frames)].sl = r.sl]
                                  \o <<Frame(d, r.sl,
                                              IF hyp THEN Append(f.want, e) ELSE f.want)>>]
    /\ RunUntouched

\* visit(d, stack), or s := stack; s = append(s, f); visit(d, s), for the
\* next dominee d
VisitDominee ==
    /\ mem.frames # <<>>
    /\ TopFrame.kid \in 1..Len(mem.tree[TopFrame.b])
    /\ \E hyp \in BOOLEAN :
          LET f == TopFrame
              d == mem.tree[f.b][f.kid]
              e == [by |-> f.b, for |-> d]
              r == IF hyp THEN append(mem.heap, f.sl, e)
                   ELSE [heap |-> mem.heap, sl |-> f.sl]
          IN mem' = [mem EXCEPT
                       !.heap = r.heap,
                       !.frames = [@ EXCEPT ![Len(mem.frames)].kid = f.kid + 1]
                                  \o <<Frame(d, r.sl,
                                              IF hyp THEN Append(f.want, e) ELSE f.want)>>]
    /\ RunUntouched

\* prune's "continue" for the successor it skips
SkipDominee ==
    /\ mem.frames # <<>>
    /\ TopFrame.kid \in 1..Len(mem.tree[TopFrame.b])
    /\ mem' = [mem EXCEPT !.frames[Len(mem.frames)].kid = @ + 1]
    /\ RunUntouched

\* visit returns
ReturnVisit ==
    /\ mem.frames # <<>>
    /\ TopFrame.kid > Len(mem.tree[TopFrame.b])
    /\ mem' = [mem EXCEPT !.frames = SubSeq(@, 1, Len(@) - 1)]
    /\ RunUntouched

InitSlices == Init /\ prog = MkProg(LoopFuncs, <<"last">>, TRUE, NoExt)

NextSlices == StartVisit \/ ScanPush \/ EndScan \/ VisitDominee \/ SkipDominee
              \/ ReturnVisit

SpecSlices == InitSlices /\ [][NextSlices]_vars

(***************************************************************************)
(* Main(cg) and analyzeNode (knil.go 568-895): one goroutine per out-edge  *)
(* of the root of the call graph, each with a pass of its own (errs and    *)
(* the result cache calls).  A goroutine is the chain of the calls of the  *)
(* closure call in progress; a frame holds the node and the argument       *)
(* nilnesses of the call, the visits still to make, seen[], the block and  *)
(* the instruction the visit is at, its stack and, inside a call           *)
(* instruction, the edge reached and the results collected.  A goroutine   *)
(* whose chain of calls outgrows the stack, or that panics, ends the       *)
(* process.                                                                *)
(***************************************************************************)
\* the depth of recursion the goroutine stack has room for (the runtime's
\* limit is 1 GB of stack), scaled down
MaxDepth == 3

nilnessStrings == <<"non-nil", "unknown", "nil">>

\* fmt.Sprint(args)
Sprint(args) == [k \in 1..Len(args) |-> nilnessStrings[args[k] + 2]]

\* encodeCallInfo(n, args)
encodeCallInfo(n, args) == [id |-> n.id, args |-> Sprint(args)]

Node(id, sig, fn, out) == [id |-> id, sig |-> sig, fn |-> fn, out |-> out]

\* the functions of the roots.  kind tells the body of main:
\*   "leaf"     func main() {}
\*   "call"     func main() { foo() }
\*   "callnil"  func main() { foo1(nil) }
\*   "builtin"  func main() { print() }           (no edge of the graph)
\*   "deref"    func main() { _ = p.f; foo() }    (p the nil constant)
\*   "early"    func main() { if .. { return }; foo() }
\*   "earlyuse" func main() { if .. { return }; r := foo2(); _ = *r }
MainFunc(kind) ==
    LET lt == BinOpI(1801, "LSS", Const(2), Const(3))
        c2 == CallI(1807, "Call", "foo2", <<>>)
        body == CASE kind = "leaf" -> <<ReturnI(1802, <<>>)>>
                  [] kind = "call" ->
                       <<CallI(1803, "Call", "foo", <<>>), ReturnI(1802, <<>>)>>
                  [] kind = "callnil" ->
                       <<CallI(1804, "Call", "foo1", <<NilConst(1)>>), ReturnI(1802, <<>>)>>
                  [] kind = "builtin" ->
                       <<CallI(1805, "Call", "print", <<>>), ReturnI(1802, <<>>)>>
                  [] kind = "deref" ->
                       <<FieldAddrI(1806, NilConst(1)), CallI(1803, "Call", "foo", <<>>),
                         ReturnI(1802, <<>>)>>
                  [] OTHER -> <<>>
    IN IF kind \in {"early", "earlyuse"}
       THEN Func("main", <<>>,
                 <<Blk(<<lt, IfI(1808, lt)>>, <<2, 3>>, 0, <<2, 3>>),
                   Blk(<<ReturnI(1809, <<>>)>>, <<>>, 1, <<>>),
                   Blk(IF kind = "early"
                       THEN <<CallI(1803, "Call", "foo", <<>>), ReturnI(1802, <<>>)>>
                       ELSE <<c2, UnOpI(1810, IV(c2)), ReturnI(1802, <<>>)>>,
                       <<>>, 1, <<>>)>>)
       ELSE Func("main", <<>>, <<Blk(body, <<>>, 0, <<>>)>>)

MainKinds == {"leaf", "call", "callnil", "builtin", "deref", "early", "earlyuse"}

\* the signature of the value a call instruction calls
SigOf(callee) ==
    CASE callee = "foo1" -> "func(*int)"
      [] callee = "foo2" -> "func() *int"
      [] callee = "print" -> "func(...)"
      [] OTHER -> "func()"

\* a call graph: cg.Root.Out leads to init and main, or to main only; main
\* has an edge to each function it calls but the builtin
Graph(kind, withInit) ==
    LET leaf(name, pos) == Func(name, <<>>, <<Blk(<<ReturnI(pos, <<>>)>>, <<>>, 0, <<>>)>>)
    IN [roots |-> IF withInit THEN <<"init", "main">> ELSE <<"main">>,
        nodes |-> [n \in {"init", "main", "foo", "foo1", "foo2"} |->
                     CASE n = "main" ->
                            Node(1, "func()", MainFunc(kind),
                                 CASE kind \in {"call", "deref", "early"} -> <<"foo">>
                                   [] kind = "callnil" -> <<"foo1">>
                                   [] kind = "earlyuse" -> <<"foo2">>
                                   [] OTHER -> <<>>)
                       [] n = "init" -> Node(2, "func()", leaf("init", 1811), <<>>)
                       [] n = "foo" -> Node(3, "func()", leaf("foo", 1812), <<>>)
                       [] n = "foo1" -> Node(4, "func(*int)", leaf("foo1", 1813), <<>>)
                       [] OTHER -> Node(5, "func() *int", leaf("foo2", 1814), <<>>)]]

Graphs == {Graph(kind, withInit) : kind \in MainKinds, withInit \in BOOLEAN}

\* possibleEdges(n, s): types.AssignableTo between signatures is identity
possibleEdges(G, n, s) == SelectSeq(n.out, LAMBDA e : G.nodes[e].sig = s)

Result(ret, isnilret, err) == [ret |-> ret, nilret |-> isnilret, err |-> err]

\* p.calls[ci] = append(p.calls[ci], r)
AppendResult(calls, ci, r) ==
    MapPut(calls, ci, (IF ci \in DOMAIN calls THEN calls[ci] ELSE <<>>) \o <<r>>)

CallFrame(n, args, stack) ==
    [n |-> n, args |-> args, work |-> <<Kid(1, stack)>>, seen |-> {}, b |-> 0, k |-> 0,
     stack |-> stack, e |-> 0, results |-> <<>>]

\* the stack a call starts from: the arguments as the facts of the
\* parameters when their counts agree, else nothing
EntryStack(fn, args) ==
    IF Len(fn.params) = Len(args)
    THEN [i \in 1..Len(args) |-> Fact(fn.params[i], args[i])]
    ELSE <<>>

\* "go analyzeNode(passes[i], wg, o.Callee)": callStack, then
\* call(n, nilnesses{}, callStack) on the empty cache
Goroutine(G, root) ==
    [st |-> IF G.nodes[root].fn.blocks = <<>> THEN "panic" ELSE "running",
     frames |-> <<CallFrame(root, <<>>, EntryStack(G.nodes[root].fn, <<>>))>>,
     calls |-> [c \in {} |-> <<>>], errs |-> <<>>, callStack |-> <<>>]

\* analyzeNode's notNil(stack, instr, v, descr) in the call with key ci
notNilCG(g, ci, stack, v, descr) ==
    IF nilnessOf(stack, v) = isnonnil THEN g
    ELSE [g EXCEPT !.errs = Append(@, [depth |-> Len(g.callStack), err |-> descr]),
                   !.calls = AppendResult(@, ci, Result(<<>>, TRUE, descr))]

\* the merge of the results that have a ret
RECURSIVE MergeResults(_, _, _)
MergeResults(rs, k, acc) ==
    IF k > Len(rs) \/ acc.panic THEN acc
    ELSE IF rs[k].nilret THEN MergeResults(rs, k + 1, acc)
    ELSE IF acc.none
    THEN MergeResults(rs, k + 1, [m |-> rs[k].ret, none |-> FALSE, panic |-> FALSE])
    ELSE LET r == mergeNilnesses(acc.m, rs[k].ret)
         IN MergeResults(rs, k + 1, [m |-> r.ns, none |-> FALSE, panic |-> r.panic])

\* "for c, vr := range *vrs": the facts pushed for the referrers of the call
RECURSIVE PushCG(_, _, _, _, _, _)
PushCG(fn, v, vrs, k, merged, acc) ==
    IF k > Len(vrs) \/ acc.panic THEN acc
    ELSE LET vr == CHOOSE i \in SeqToSet(AllInstrs(fn)) : i.pos = vrs[k]
         IN IF vr.op = "Extract"
            THEN IF k > Len(merged) THEN [acc EXCEPT !.panic = TRUE]
                 ELSE PushCG(fn, v, vrs, k + 1, merged,
                             [acc EXCEPT !.stack = Append(@, Fact(IV(vr), merged[k]))])
            ELSE IF vr.op \in ValueOps
            THEN IF Len(merged) # 1 THEN [acc EXCEPT !.panic = TRUE]
                 ELSE PushCG(fn, v, vrs, k + 1, merged,
                             [acc EXCEPT !.stack = Append(@, Fact(v, merged[1]))])
            ELSE PushCG(fn, v, vrs, k + 1, merged, acc)

\* call returns p.calls[ci] to the call instruction of the caller, or
\* analyzeNode reaches wg.Done()
ReturnCall(G, g) ==
    LET d == Len(g.frames)
        F == g.frames[d]
        ci == encodeCallInfo(G.nodes[F.n], F.args)
        calls == IF ci \in DOMAIN g.calls THEN g.calls
                 ELSE AppendResult(g.calls, ci, Result(<<>>, TRUE, "none"))
    IN IF d = 1
       THEN [g EXCEPT !.calls = calls, !.frames = <<>>, !.st = "done"]
       ELSE [g EXCEPT !.calls = calls,
                      !.frames = [SubSeq(g.frames, 1, d - 1) EXCEPT
                                    ![d - 1].results = @ \o calls[ci],
                                    ![d - 1].e = @ + 1],
                      !.callStack = SubSeq(@, 1, Len(@) - 1)]

\* the call instruction i of the visit: notNil of the called value, then one
\* call(n, nilnessesOf(stack, c.Args), callStack) per possible edge, then
\* the facts of the results
CallInstr(G, g, i) ==
    LET d == Len(g.frames)
        F == g.frames[d]
        n == G.nodes[F.n]
        ci == encodeCallInfo(n, F.args)
        es == possibleEdges(G, n, SigOf(i.callee))
    IN IF F.e = 0
       THEN [notNilCG(g, ci, F.stack, i.fnval, i.descr) EXCEPT
                !.frames[d].e = 1, !.frames[d].results = <<>>]
       ELSE IF F.e <= Len(es)
       THEN LET args == nilnessesOf(F.stack, i.args)
                key == encodeCallInfo(n, args)
            IN IF key \in DOMAIN g.calls
               THEN [g EXCEPT !.frames[d].results = @ \o g.calls[key],
                              !.frames[d].e = @ + 1]
               ELSE IF d >= MaxDepth THEN [g EXCEPT !.st = "overflow"]
               ELSE [g EXCEPT !.callStack = Append(@, <<F.n, es[F.e]>>),
                              !.frames = Append(@, CallFrame(F.n, args,
                                                     EntryStack(n.fn, args)))]
       ELSE LET m == MergeResults(F.results, 1, [m |-> <<>>, none |-> TRUE, panic |-> FALSE])
                vrs == InitReferrers(n.fn, IV(i))
                ps == IF i.op \in ValueOps /\ ~m.none /\ ~m.panic
                      THEN PushCG(n.fn, IV(i), vrs, 1, m.m,
                                  [stack |-> F.stack, panic |-> FALSE])
                      ELSE [stack |-> F.stack, panic |-> m.panic]
            IN IF ps.panic THEN [g EXCEPT !.st = "panic"]
               ELSE [g EXCEPT !.frames[d].stack = ps.stack, !.frames[d].e = 0,
                              !.frames[d].k = @ + 1]

\* one instruction of analyzeNode's visit other than a call
InstrCG(g, ci, F, i) ==
    CASE i.op = "Return" ->
           [g EXCEPT !.calls = AppendResult(@, ci,
                                   Result(nilnessesOf(F.stack, i.results), FALSE, "none"))]
      [] i.op = "FieldAddr" -> notNilCG(g, ci, F.stack, i.x, "field selection")
      [] i.op = "MapUpdate" -> notNilCG(g, ci, F.stack, i.x, "map update")
      [] i.op = "Slice" /\ i.flag -> notNilCG(g, ci, F.stack, i.x, "slice operation")
      [] i.op = "Store" -> notNilCG(g, ci, F.stack, i.x, "store")
      [] i.op = "TypeAssert" /\ ~i.flag -> notNilCG(g, ci, F.stack, i.x, "type assertion")
      [] i.op = "UnOp" /\ i.flag -> notNilCG(g, ci, F.stack, i.x, "load")
      [] OTHER -> g

\* the next step of a goroutine: the innermost call takes its next visit,
\* scans the next instruction of its block, descends, or returns
Step(G, g) ==
    LET d == Len(g.frames)
        F == g.frames[d]
        n == G.nodes[F.n]
    IN IF F.b = 0 /\ F.work = <<>> THEN ReturnCall(G, g)
       ELSE IF F.b = 0
       THEN IF Head(F.work).b \in F.seen
            THEN [g EXCEPT !.frames[d].work = Tail(@)]
            ELSE [g EXCEPT !.frames[d].work = Tail(@),
                           !.frames[d].seen = @ \cup {Head(F.work).b},
                           !.frames[d].b = Head(F.work).b, !.frames[d].k = 1,
                           !.frames[d].stack = Head(F.work).stack]
       ELSE IF F.k > Len(n.fn.blocks[F.b].instrs)
       THEN [g EXCEPT !.frames[d].work =
                          Descend(n.fn, TRUE, n.fn.blocks[F.b], F.stack).kids \o @,
                      !.frames[d].b = 0]
       ELSE LET i == n.fn.blocks[F.b].instrs[F.k]
            IN IF i.op \in CallOps THEN CallInstr(G, g, i)
               ELSE [InstrCG(g, encodeCallInfo(n, F.args), F, i) EXCEPT
                        !.frames[d].k = @ + 1]

MainUntouched == UNCHANGED <<RunVars, mem>>

\* Main is entered with a call graph
StartMain ==
    /\ mainst.pc = "off"
    /\ \E G \in Graphs : mainst' = [mainst EXCEPT !.graph = G, !.pc = "spawn"]
    /\ MainUntouched

\* "wg.Add(1); passes[i] = &pass{...}; go analyzeNode(passes[i], wg, o.Callee)"
Spawn ==
    /\ mainst.pc = "spawn"
    /\ Len(mainst.gs) < Len(mainst.graph.roots)
    /\ LET g == Goroutine(mainst.graph, mainst.graph.roots[Len(mainst.gs) + 1])
       IN mainst' = [mainst EXCEPT !.wg = @ + 1, !.gs = Append(@, g),
                                   !.pc = IF g.st = "panic" THEN "crashed" ELSE @]
    /\ MainUntouched

\* the loop over cg.Root.Out is over: wg.Wait()
BeginWait ==
    /\ mainst.pc = "spawn"
    /\ Len(mainst.gs) = Len(mainst.graph.roots)
    /\ mainst' = [mainst EXCEPT !.pc = "wait"]
    /\ MainUntouched

\* a goroutine takes a step; wg.Done() when its call returns; a panic or a
\* stack overflow ends the process
GoStep ==
    /\ mainst.pc \in {"spawn", "wait"}
    /\ \E j \in 1..Len(mainst.gs) :
          /\ mainst.gs[j].st = "running"
          /\ LET g == Step(mainst.graph, mainst.gs[j])
             IN mainst' = [mainst EXCEPT
                             !.gs[j] = g,
                             !.wg = IF g.st = "done" THEN @ - 1 ELSE @,
                             !.pc = IF g.st \in {"panic", "overflow"} THEN "crashed" ELSE @]
    /\ MainUntouched

\* wg.Wait() returns; the errors of every pass are printed
PrintErrs ==
    /\ mainst.pc = "wait"
    /\ mainst.wg = 0
    /\ mainst' = [mainst EXCEPT
                    !.pc = "end",
                    !.printed = Flatten([j \in 1..Len(mainst.gs) |-> mainst.gs[j].errs])]
    /\ MainUntouched

InitMain == Init /\ prog = MkProg(LoopFuncs, <<"last">>, TRUE, NoExt)

NextMain == StartMain \/ Spawn \/ BeginWait \/ GoStep \/ PrintErrs

SpecMain == InitMain /\ [][NextMain]_vars

(***************************************************************************)
(* Properties                                                              *)
(***************************************************************************)
SrcNames == SeqToSet(prog.src)
Kinds == {"na", "nr"}

\* the call instructions of block b whose callee is a function of the package
LocalCalls(b) ==
    {i \in SeqToSet(b.instrs) :
        /\ i.op \in CallOps /\ i.callee # ""
        /\ prog.funcs[i.callee].hasObj /\ prog.funcs[i.callee].pkg = "self"}
Returns(b) == {i \in SeqToSet(b.instrs) : i.op = "Return"}

\* a step that scans a block in Summarize mode
SummarizeVisit ==
    /\ walking /\ work # <<>> /\ pc = "summarize" /\ pc' = "summarize"
    /\ Head(work).b \notin seen
    /\ seen' # seen

\* C1 (as stated): across the rounds of the fixpoint loop, the nilness stored
\* at a position of args_by_site or returns_by_site only ever changes from Nil
\* or NonNil to Unknown, never from Unknown to Nil or NonNil and never between
\* Nil and NonNil
C1_Monotone ==
    [][\A o \in DOMAIN facts : \A m \in Kinds : \A site \in DOMAIN facts[o][m] :
          /\ site \in DOMAIN facts'[o][m]
          /\ Len(facts'[o][m][site]) = Len(facts[o][m][site])
          /\ \A k \in 1..Len(facts[o][m][site]) :
                facts'[o][m][site][k] # facts[o][m][site][k]
                    => facts'[o][m][site][k] = unknown]_vars

\* C1 (amended): a recorded site is never removed, and a Summarize visit of a
\* call site (callee of the package, at least one argument, stored vector of
\* the call's arity) or of a return site (at least one result) leaves at that
\* site the pointwise lookup of the arguments or results under the walker's
\* stack: the entry is replaced, not met with the old one, so a position can
\* also change from Unknown to Nil or NonNil
C1_Overwrite ==
    [][/\ \A o \in DOMAIN facts : \A m \in Kinds :
              DOMAIN facts[o][m] \subseteq DOMAIN facts'[o][m]
       /\ SummarizeVisit =>
            LET b == CurFn.blocks[Head(work).b]
            IN /\ \A i \in LocalCalls(b) :
                    LET na == facts'[prog.funcs[i.callee].obj].na
                    IN (Len(i.args) >= 1 /\ i.pos \in DOMAIN na
                        /\ Len(na[i.pos]) = Len(i.args))
                         => na[i.pos] = nilnessesOf(last'.stackOut, i.args)
               /\ \A i \in Returns(b) :
                    (Len(i.results) >= 1 /\ CurFn.hasObj)
                      => /\ i.pos \in DOMAIN facts'[CurFn.obj].nr
                         /\ facts'[CurFn.obj].nr[i.pos]
                              = nilnessesOf(last'.stackOut, i.results)]_vars

\* a walk in progress has changed a stored position from Unknown to NonNil
C1_Witness ==
    /\ walking /\ pc = "summarize"
    /\ \E o \in DOMAIN facts : \E site \in DOMAIN facts0[o].na :
          /\ Len(facts0[o].na[site]) >= 1
          /\ facts0[o].na[site][1] = unknown
          /\ site \in DOMAIN facts[o].na
          /\ facts[o].na[site][1] = isnonnil

\* the call sites and return sites of the source functions
NumSites ==
    Cardinality({i \in UNION {SeqToSet(AllInstrs(prog.funcs[f])) : f \in SrcNames} :
                    i.op = "Return" \/ (i.op \in CallOps /\ i.callee # "")})

\* C2 (as stated): the fixpoint loop exits, after at most 2 x (call sites +
\* return sites of the source procedures) rounds
C2_RoundBound == round <= 2 * NumSites

\* the loop is in a round beyond the bound, because a callee of a package
\* without pkgDone makes every walk of its caller report an update
C2_Diverged ==
    /\ ~prog.extDone /\ pc = "summarize" /\ round > 2 * NumSites /\ updated

\* whether the first fact about v on the stack, or v's kind, says non-nil
KnownNonNil(stack, v) ==
    \/ v.kind \in IntrinsicKinds
    \/ v.kind = "Const" /\ ~v.nil
    \/ \E j \in 1..Len(stack) :
          /\ stack[j] = Fact(v, isnonnil)
          /\ \A h \in 1..(j - 1) : stack[h].value # v

\* C3: no nilderef diagnostic is emitted for a value whose lookup under the
\* walker's stack returns NonNil, in particular none for an intrinsically
\* non-nil value or a non-nil literal
C3_NoNonNilReport ==
    /\ \A k \in 1..Len(diags) :
          diags[k].cat = "nilderef" => \E e \in dlog : e.pos = diags[k].pos
    /\ \A e \in dlog : ~KnownNonNil(e.stack, e.v)

\* dereferences were reported, one of them under a stack that holds facts
\* about other values and a Nil fact about the operand
C3_Witness ==
    /\ pc = "done"
    /\ \E e \in dlog : \E j \in 1..Len(e.stack) : e.stack[j] = Fact(e.v, isnil)
    /\ \E f \in SrcNames : \E i \in SeqToSet(AllInstrs(prog.funcs[f])) :
          /\ i.op \in {"UnOp", "Store", "Slice", "FieldAddr"}
          /\ i.x.kind \in IntrinsicKinds
          /\ \A k \in 1..Len(diags) : diags[k].pos # i.pos

\* the index of the most recently pushed fact about v (0 if there is none)
LastIndex(stack, v) ==
    IF \E j \in 1..Len(stack) : stack[j].value = v
    THEN CHOOSE j \in 1..Len(stack) :
            stack[j].value = v /\ \A h \in (j + 1)..Len(stack) : stack[h].value # v
    ELSE 0

\* C4 (as stated): if the stack holds several facts about a value, the lookup
\* returns the most recently pushed one: a hypothesis pushed on a branch
\* shadows the entry seed
C4_MostRecent ==
    \A k \in 1..Len(work) :
        LET st == work[k].stack
        IN \A j \in 1..Len(st) :
              nilnessOf(st, st[j].value) = st[LastIndex(st, st[j].value)].nilness

\* the index of the first pushed fact about v
FirstIndex(stack, v) ==
    CHOOSE j \in 1..Len(stack) :
        stack[j].value = v /\ \A h \in 1..(j - 1) : stack[h].value # v

\* the stacks the walker holds: those of the pending visits, the one the last
\* visited block ended with, and those the reported operands were looked up in
LiveStacks ==
    {work[k].stack : k \in 1..Len(work)} \cup {last.stackOut}
    \cup {e.stack : e \in dlog}

\* C4 (amended): if the stack holds several facts about a value, the lookup
\* returns the OLDEST one (scan from the front): an entry seed or call-return
\* fact shadows a hypothesis pushed later for the same value
C4_Oldest ==
    \A st \in LiveStacks : \A j \in 1..Len(st) :
        nilnessOf(st, st[j].value) = st[FirstIndex(st, st[j].value)].nilness

\* a dereference was reported for an operand whose call-return fact
\* (v, Unknown) precedes the hypothesis (v, NonNil) of a dominating comparison
C4_Witness ==
    \E e \in dlog : \E i, j \in 1..Len(e.stack) :
        /\ i < j /\ e.stack[i] = Fact(e.v, unknown)
        /\ e.stack[j] = Fact(e.v, isnonnil)

\* the subtree of the dominator tree rooted at block d
RECURSIVE DomSubtree(_, _)
DomSubtree(fn, d) ==
    {d} \cup UNION {DomSubtree(fn, c) : c \in SeqToSet(fn.blocks[d].dominees)}

\* C5: once prune skips a dominator-tree child, no block of its subtree is
\* visited by the walk: in Summarize mode no call or return site inside is
\* observed, in Diagnose mode no diagnostic is emitted inside
C5_PrunedUnvisited ==
    skipped # {} =>
        LET fn == prog.funcs[last.fn]
            sub == UNION {DomSubtree(fn, d) : d \in skipped}
            poss == UNION {SeqToSet(PosOf(fn.blocks[d].instrs)) : d \in sub}
        IN /\ sub \cap seen = {}
           /\ \A k \in 1..Len(work) : work[k].b \notin sub
           /\ last.onlyCheck =>
                \A o \in DOMAIN facts : \A m \in Kinds : \A site \in poss :
                    site \in DOMAIN facts[o][m] =>
                        /\ site \in DOMAIN facts0[o][m]
                        /\ facts[o][m][site] = facts0[o][m][site]
           /\ ~last.onlyCheck =>
                \A k \in 1..Len(diags) : diags[k].pos \notin poss

\* a Summarize walk has ended after pruning a block that holds a call site
C5_Witness ==
    /\ skipped # {} /\ ~walking /\ last.onlyCheck
    /\ \E d \in skipped : \E i \in SeqToSet(prog.funcs[last.fn].blocks[d].instrs) :
          i.op \in CallOps /\ i.callee # ""

\* the block the last visit scanned, and the If it ends with
LastBlock == prog.funcs[last.fn].blocks[last.b]
LastIf == LastBlock.instrs[Len(LastBlock.instrs)]
LastIsCmp == last.b # 0 /\ LastIf.op = "If" /\ LastIf.cmp \in {"EQL", "NEQ"}
LastXn == nilnessOf(last.stackOut, LastIf.args[1])
LastYn == nilnessOf(last.stackOut, LastIf.args[2])

\* ssa.If: control goes to Succs[0] if the condition is true, to Succs[1]
\* otherwise; the condition x == y (x != y) is true iff the operands are
\* equal (differ)
Taken(b, operandsEqual) ==
    LET If == b.instrs[Len(b.instrs)]
        cond == IF If.cmp = "EQL" THEN operandsEqual ELSE ~operandsEqual
    IN IF cond THEN b.succs[1] ELSE b.succs[2]

KidBlocks == {last.kids[k].b : k \in 1..Len(last.kids)}

\* C6: when a block ends in an == or != comparison whose operands' lookups are
\* both known with at least one Nil, Diagnose emits exactly one cond
\* diagnostic, tautological if (xn = yn) = (op is ==) and impossible
\* otherwise, Summarize emits none, the statically impossible successor is
\* skipped iff it has exactly one predecessor, and every other dominee is
\* visited with the unchanged stack
C6_Degenerate ==
    (/\ LastIsCmp /\ LastXn # unknown /\ LastYn # unknown
     /\ (LastXn = isnil \/ LastYn = isnil))
    => LET isTrue == (LastXn = LastYn) = (LastIf.cmp = "EQL")
           impossible == Taken(LastBlock, ~(LastXn = LastYn))
           doms == SeqToSet(LastBlock.dominees)
       IN /\ last.conds =
                IF last.onlyCheck THEN <<>>
                ELSE <<Diag("cond", LastIf.x.id,
                            IF isTrue THEN "tautological" ELSE "impossible")>>
          /\ ~last.onlyCheck => diags # <<>> /\ \E k \in 1..Len(diags) :
                /\ diags[k].cat = "cond" /\ diags[k].pos = LastIf.x.id
                /\ \A h \in 1..Len(diags) :
                      (diags[h].cat = "cond" /\ diags[h].pos = LastIf.x.id) => h = k
          /\ \A d \in doms :
                d \notin KidBlocks
                    <=> (d = impossible /\ prog.funcs[last.fn].blocks[d].npreds = 1)
          /\ KidBlocks \subseteq doms
          /\ \A k \in 1..Len(last.kids) : last.kids[k].stack = last.stackOut

\* a Diagnose visit met a degenerate comparison whose impossible successor
\* has two predecessors, and visits it
C6_Witness ==
    /\ LastIsCmp /\ last.case = "degenerate" /\ ~last.onlyCheck
    /\ \E d \in KidBlocks :
          /\ d = Taken(LastBlock, ~(LastXn = LastYn))
          /\ prog.funcs[last.fn].blocks[d].npreds = 2

\* C7 (as stated): t_succ is the successor taken when the comparison holds and
\* f_succ the successor taken when it fails, for both operators
C7_HoldsSucc ==
    LastIsCmp =>
        /\ eq(LastBlock).tsucc = LastBlock.succs[1]
        /\ eq(LastBlock).fsucc = LastBlock.succs[2]

\* C7 (amended): t_succ is the successor taken when the operands are equal and
\* f_succ the successor taken when they differ, for both operators: for
\* x != y, t_succ is the successor taken when the comparison fails
C7_EqualSucc ==
    LastIsCmp =>
        /\ eq(LastBlock).ok
        /\ eq(LastBlock).tsucc = Taken(LastBlock, TRUE)
        /\ eq(LastBlock).fsucc = Taken(LastBlock, FALSE)

\* a block ending in a != comparison was visited
C7_Witness == LastIsCmp /\ LastIf.cmp = "NEQ" /\ last.handled

\* C8: when a block ends in an == or != comparison with one operand's lookup
\* Nil and the other's Unknown, a dominee is visited with the stack extended
\* by (other operand, Nil) if it is the successor reached when the operands
\* are equal and has one predecessor, by (other operand, NonNil) if it is the
\* successor reached when they differ and has one predecessor, and with the
\* unchanged stack in every other case
C8_Hypothesis ==
    (LastIsCmp /\ {LastXn, LastYn} = {isnil, unknown})
    => LET other == IF LastXn = isnil THEN LastIf.args[2] ELSE LastIf.args[1]
           doms == LastBlock.dominees
           one(d) == prog.funcs[last.fn].blocks[d].npreds = 1
       IN /\ Len(last.kids) = Len(doms)
          /\ last.conds = <<>>
          /\ \A k \in 1..Len(doms) :
                /\ last.kids[k].b = doms[k]
                /\ last.kids[k].stack =
                     IF doms[k] = Taken(LastBlock, TRUE) /\ one(doms[k])
                     THEN Append(last.stackOut, Fact(other, isnil))
                     ELSE IF doms[k] = Taken(LastBlock, FALSE) /\ one(doms[k])
                     THEN Append(last.stackOut, Fact(other, isnonnil))
                     ELSE last.stackOut

\* a hypothesis comparison was visited one of whose successors has two
\* predecessors and is also a dominee
C8_Witness ==
    /\ LastIsCmp /\ last.case = "hypothesis"
    /\ \E k \in 1..Len(last.kids) :
          /\ last.kids[k].b \in SeqToSet(LastBlock.succs)
          /\ prog.funcs[last.fn].blocks[last.kids[k].b].npreds = 2
    /\ \E k \in 1..Len(last.kids) : last.kids[k].stack # last.stackOut

\* the meet over the recorded call sites of the nilness at position k
SiteMeet(na, k) ==
    LET S == {na[site][k] : site \in DOMAIN na}
    IN IF S = {isnil} THEN isnil ELSE IF S = {isnonnil} THEN isnonnil ELSE unknown

Reported(pos) == \E k \in 1..Len(diags) : diags[k].cat = "nilderef" /\ diags[k].pos = pos

\* the instructions of fn's entry block that dereference parameter v before
\* any other instruction refers to it
FirstDerefs(fn, v) ==
    LET is == fn.blocks[1].instrs
    IN {is[j] : j \in {h \in 1..Len(is) :
            /\ is[h].x = v
            /\ \/ is[h].op \in {"FieldAddr", "Store", "MapUpdate"}
               \/ is[h].op \in {"UnOp", "Slice"} /\ is[h].flag
            /\ \A g \in 1..(h - 1) : v \notin SeqToSet(Operands(is[g]))}}

Walked == {f \in SrcNames : ~prog.funcs[f].ignored /\ prog.funcs[f].blocks # <<>>}

\* C9: in Diagnose mode the entry stack of a procedure with an observed call
\* site (a non-empty merged vector) holds, for each parameter, the positional
\* meet over the recorded call sites of the argument nilness; so a
\* dereference of a parameter with no dominating hypothesis is not reported
\* when every site passes NonNil, and is reported when some site passes Nil
\* or Unknown or two sites disagree
C9_EntryMeet ==
    /\ (walking /\ pc = "diagnose" /\ length(facts[CurFn.obj].na) # 0) =>
          LET na == facts[CurFn.obj].na
          IN entry = [k \in 1..Len(CurFn.params) |->
                         Fact(CurFn.params[k], SiteMeet(na, k))]
    /\ pc = "done" =>
          \A f \in Walked :
              LET fn == prog.funcs[f]
                  na == facts[fn.obj].na
              IN length(na) # 0 =>
                    \A k \in 1..Len(fn.params) : \A i \in FirstDerefs(fn, fn.params[k]) :
                        Reported(i.pos) <=>
                            ~(\A site \in DOMAIN na : na[site][k] = isnonnil)

\* the run is over; a parameter with a NonNil and a Nil site was reported at
\* its dereference
C9_Witness ==
    /\ pc = "done"
    /\ \E f \in Walked :
          LET fn == prog.funcs[f]
              na == facts[fn.obj].na
          IN /\ Len(fn.params) = 1
             /\ \E s1, s2 \in DOMAIN na : na[s1] = <<isnonnil>> /\ na[s2] = <<isnil>>
             /\ \E i \in FirstDerefs(fn, fn.params[1]) : Reported(i.pos)

\* the return sites of function fn
ReturnsOf(fn) == {i \in SeqToSet(AllInstrs(fn)) : i.op = "Return"}

\* the pairs <<c, d>> of fn: c a call of a function of the package, d the
\* first referrer of c's value, a load through it
CallDerefs(fn) ==
    {p \in SeqToSet(AllInstrs(fn)) \X SeqToSet(AllInstrs(fn)) :
        /\ p[1].op = "Call" /\ p[1].callee # ""
        /\ prog.funcs[p[1].callee].pkg = "self"
        /\ p[2].op = "UnOp" /\ p[2].flag /\ p[2].x = IV(p[1])
        /\ prog.refs0[p[1].pos][1] = p[2].pos}

\* C10: for a procedure q whose only return site returns the nil literal,
\* after the fixpoint q's returns have exactly one entry, <<Nil>>; in the
\* Diagnose walk of a caller the call to q puts (callValue, Nil) on the stack
\* and the dereference of the call's value is reported as a nil dereference
\* in load, whereas the dereference of the value of a call to a procedure
\* whose every return site is NonNil is not reported
C10_ReturnNil ==
    /\ pc \in {"diagnose", "done"} =>
          \A f \in Walked :
              LET fn == prog.funcs[f]
              IN (\E i \in ReturnsOf(fn) :
                      ReturnsOf(fn) = {i} /\ i.results = <<NilConst(1)>>)
                  => /\ Cardinality(DOMAIN facts[fn.obj].nr) = 1
                     /\ \A site \in DOMAIN facts[fn.obj].nr :
                           facts[fn.obj].nr[site] = <<isnil>>
    /\ pc = "done" =>
          \A f \in Walked : \A p \in CallDerefs(prog.funcs[f]) :
              LET q == prog.funcs[p[1].callee]
                  rs == ReturnsOf(q)
                  lit(n) == rs # {} /\ \A i \in rs :
                               /\ Len(i.results) = 1
                               /\ nilnessOf(<<>>, i.results[1]) = n
              IN /\ (p[1].callee \in Walked /\ Cardinality(rs) = 1 /\ lit(isnil)) =>
                      /\ \E k \in 1..Len(diags) :
                            diags[k] = Diag("nilderef", p[2].pos, "load")
                      /\ \E e \in dlog :
                            /\ e.pos = p[2].pos /\ e.v = IV(p[1])
                            /\ nilnessOf(e.stack, IV(p[1])) = isnil
                            /\ \E j \in 1..Len(e.stack) :
                                  e.stack[j] = Fact(IV(p[1]), isnil)
                 /\ (p[1].callee \in Walked /\ lit(isnonnil)) => ~Reported(p[2].pos)

\* p and q call each other, q returns nil only: the run is over with the
\* dereference of q's value reported and that of p's value not
C10_Witness ==
    /\ pc = "done"
    /\ \E f, g \in Walked :
          /\ f # g
          /\ \E p \in CallDerefs(prog.funcs[f]) : p[1].callee = g /\ Reported(p[2].pos)
          /\ \E p \in CallDerefs(prog.funcs[g]) : p[1].callee = f /\ ~Reported(p[2].pos)
          /\ \A site \in DOMAIN facts[g].nr : facts[g].nr[site] = <<isnil>>
          /\ facts[g].nr # EmptyMap

\* the call instructions of the walked functions whose callee has object o
SitesOf(o) ==
    {i \in UNION {SeqToSet(AllInstrs(prog.funcs[f])) : f \in Walked} :
        i.op \in CallOps /\ i.callee # "" /\ prog.funcs[i.callee].obj = o}

\* a call through a method-value closure: the callee is a bound-method
\* wrapper, whose free variable is the receiver
IsClosureCall(i) == i.callee # "" /\ prog.funcs[i.callee].freeVars # <<>>

\* methods called only through closures, with no argument
ClosureOnly ==
    {m \in Walked : /\ SitesOf(m) # {}
                    /\ \A i \in SitesOf(m) : IsClosureCall(i) /\ i.args = <<>>}

\* C11 (as stated): when a method of arity 0 is bound to a nil receiver and
\* the closure is called with 0 arguments, after the fixpoint the method's
\* args_by_site at that call site has length 1 and its sole entry, the bound
\* receiver, is Nil; the entry stack is seeded with (freeVar0, Nil) and the
\* dereference of the receiver is reported
C11_ReceiverNil ==
    pc \in {"diagnose", "done"} =>
        \A m \in ClosureOnly : \A i \in SitesOf(m) :
            i.x.nil => /\ i.pos \in DOMAIN facts[m].na
                       /\ facts[m].na[i.pos] = <<isnil>>

\* C11 (amended): after the fixpoint the method's args_by_site holds one of
\* these call sites only, with the empty vector; receiver_fv_by_site holds
\* NonNil at that site whatever receiver was bound; the entry stack of the
\* method is empty and the dereference of the receiver is reported
C11_ReceiverFV ==
    /\ pc \in {"diagnose", "done"} =>
          \A m \in ClosureOnly : \E i \in SitesOf(m) :
              /\ facts[m].na = MapPut(EmptyMap, i.pos, <<>>)
              /\ facts[m].rfv = [p \in {i.pos} |-> isnonnil]
    /\ (walking /\ pc = "diagnose" /\ CurFn.name \in ClosureOnly) => entry = <<>>
    /\ pc = "done" =>
          \A m \in ClosureOnly :
              \A k \in 1..Len(prog.funcs[m].params) :
                  \A i \in FirstDerefs(prog.funcs[m], prog.funcs[m].params[k]) :
                      \E d \in 1..Len(diags) : diags[d] = Diag("nilderef", i.pos, "load")

\* the run is over for a program that calls a method only through closures,
\* one of them bound to a nil receiver
C11_Witness ==
    /\ pc = "done"
    /\ \E m \in ClosureOnly :
          /\ \E i \in SitesOf(m) : i.x.nil
          /\ Cardinality(SitesOf(m)) = 2
          /\ Reported(prog.funcs[m].blocks[1].instrs[1].pos)

\* the positions of the instructions of function f
PosIn(f) == SeqToSet(PosOf(AllInstrs(prog.funcs[f])))

\* the walked functions that no call site was observed for
Uncalled == {f \in Walked : prog.funcs[f].hasObj /\ DOMAIN facts[f].na = {}}

\* C12 (as stated; second checkFunc): in Diagnose mode a procedure without
\* observed call sites is walked iff its name begins with an upper-case
\* letter: an unexported never-called procedure produces no diagnostic, an
\* exported one is walked with an empty stack and the dereference of a
\* parameter is reported
C12_LeadingUpper ==
    pc = "done" =>
        \A f \in Uncalled :
            IF prog.funcs[f].upper[1]
            THEN \A k \in 1..Len(prog.funcs[f].params) :
                    \A i \in FirstDerefs(prog.funcs[f], prog.funcs[f].params[k]) :
                        Reported(i.pos)
            ELSE \A d \in 1..Len(diags) : diags[d].pos \notin PosIn(f)

\* the run is over with a diagnostic in a never-called function whose name
\* has an upper-case letter, but not as its first letter
C12_Witness ==
    /\ pc = "done"
    /\ \E f \in Uncalled :
          /\ ~prog.funcs[f].upper[1]
          /\ \E d \in 1..Len(diags) : diags[d].pos \in PosIn(f)

\* the instructions of the walked functions whose first operand is a load of
\* the global with id g
OnGlobal(g) ==
    {i \in UNION {SeqToSet(AllInstrs(prog.funcs[f])) : f \in Walked} :
        /\ Len(Operands(i)) > 0
        /\ Operands(i)[1].kind = "UnOp" /\ Operands(i)[1].g = g}

\* the nil-dereference diagnostics reported for instructions on global g
GlobalDiags(g) ==
    {k \in 1..Len(diags) :
        diags[k].cat = "nilderef" /\ diags[k].pos \in {i.pos : i \in OnGlobal(g)}}

FirstPass == IF pass1 = -1 THEN Len(diags) ELSE pass1

\* C14: each instruction receives a diagnostic at most once in the whole
\* Diagnose pass, and walking the functions again from the same entry stacks,
\* with alreadyReported and the alreadyReportedGlobal facts carried over, adds
\* no diagnostic that was not already emitted (the facts, hence the entry
\* stacks, are those of the first execution: Diagnose walks change no fact)
C14_Once ==
    /\ \A j, k \in 1..FirstPass : diags[j].pos = diags[k].pos => j = k
    /\ \A k \in (FirstPass + 1)..Len(diags) : \E j \in 1..FirstPass : diags[j] = diags[k]

\* the instructions that refer to the value id, to a value one of those
\* defines, and so on, by the referrer lists of the SSA input
RECURSIVE Closure(_)
Closure(R) ==
    LET N == R \cup UNION {SeqToSet(prog.refs0[r]) : r \in R \cap DOMAIN prog.refs0}
    IN IF N = R THEN R ELSE Closure(N)
TransRefs(id) == Closure(SeqToSet(prog.refs0[id]))

\* a reported operand that is not the load of a global of the package and has
\* a referrer list
Marking(e) ==
    /\ ~(e.v.kind = "UnOp" /\ e.v.g \in prog.ownGlobals)
    /\ e.v.id \in DOMAIN prog.refs0

DoneAfterLoop ==
    /\ done <= 1
    /\ pc \in {"diagnose", "done"} => done = 1 /\ ~updated
    /\ pc = "summarize" => done = 0
    /\ done = 0 => diags = <<>> /\ gr = {} /\ ar = {}

\* C16: pkgDone is exported exactly once per run that reaches its end, by
\* the step that leaves the fixpoint loop after a round in which no Summarize
\* walk reported an update, before the first Diagnose walk; no diagnostic is
\* reported and no alreadyReportedGlobal fact is exported before it
C16_DoneOnce ==
    /\ []DoneAfterLoop
    /\ [][done' # done =>
             /\ done = 0 /\ done' = 1
             /\ pc = "summarize" /\ pc' = "diagnose"
             /\ ~walking /\ fidx > Len(prog.src) /\ ~updated /\ fidx' = 1
             /\ diags' = <<>> /\ gr' = {}]_vars

\* a run of three rounds is over: pkgDone was exported once, diagnostics and
\* a run whose Diagnose pass exported an alreadyReportedGlobal fact exist
C16_Witness ==
    /\ pc = "done" /\ done = 1
    /\ (round > 1 /\ diags # <<>>) \/ gr # {}

\* C17: a Summarize walk returns updated if and only if, during that walk, an
\* entry of na, nr or rfv of some function was added or changed (a walk
\* stores at most once at each site, so a change made is still there when the
\* walk returns)
C17_UpdatedIff ==
    walking /\ pc = "summarize" => (wupd <=> facts # facts0)

\* the formal parameters of the function with object o as the source
\* declares them: for a method, the parameters of its bound-method wrapper
\* (the receiver is the wrapper's free variable, not a parameter)
FormalCount(o) ==
    LET W == {f \in DOMAIN prog.funcs :
                 prog.funcs[f].obj = o /\ prog.funcs[f].freeVars # <<>>}
    IN IF W # {} THEN Len(prog.funcs[CHOOSE f \in W : TRUE].params)
       ELSE Len(prog.funcs[o].params)

\* C18: in every reachable state of the fixpoint, all vectors stored in one
\* function's na have the same length, and that length is the function's
\* formal parameter count or that count + 1 (bound receiver prepended)
C18_SameLength ==
    \A o \in DOMAIN facts : \A p, q \in DOMAIN facts[o].na :
        /\ Len(facts[o].na[p]) = Len(facts[o].na[q])
        /\ Len(facts[o].na[p]) \in {FormalCount(o), FormalCount(o) + 1}

\* the fixpoint is reached with four vectors of length 1 for the method m2,
\* which declares no parameter (two from static calls, two reconciled from
\* method-value calls), and one vector of length 0 for the method m1, called
\* through method values only
C18_Witness ==
    /\ pc \in {"diagnose", "done"}
    /\ "m2" \in DOMAIN facts
    /\ MapLen(facts["m2"].na) = 4
    /\ \A p \in DOMAIN facts["m2"].na : Len(facts["m2"].na[p]) = FormalCount("m2") + 1
    /\ MapLen(facts["m1"].na) = 1
    /\ \A p \in DOMAIN facts["m1"].na : Len(facts["m1"].na[p]) = FormalCount("m1")

\* the scan state of the visit at the head of work when it reaches the k-th
\* instruction of its block
ScanAt(k) ==
    Scan(prog, CurFn, onlyCheck, SubSeq(CurFn.blocks[Head(work).b].instrs, 1, k - 1), 1,
         [stack |-> Head(work).stack, facts |-> facts, upd |-> wupd, diags |-> diags,
          ar |-> ar, gr |-> gr, refs |-> refs, panic |-> FALSE, dlog |-> dlog])

\* instruction i is a static call of a function of the package that has an
\* object and a non-empty fact
StoredCall(S, i) ==
    /\ i.op \in CallOps /\ i.callee # ""
    /\ prog.funcs[i.callee].hasObj /\ prog.funcs[i.callee].pkg = "self"
    /\ ~S.panic
    /\ LET fact == S.facts[prog.funcs[i.callee].obj]
       IN MapLen(fact.na) # 0 \/ MapLen(fact.rfv) # 0

\* stored length minus argument count
ArityGap(S, i) == length(S.facts[prog.funcs[i.callee].obj].na) - Len(i.args)

\* C19: when a call passes n arguments and the callee's stored vectors have a
\* length that differs from n by exactly 1, the Summarize visit leaves the
\* new site's and every stored vector with length max(n, stored length):
\* the incoming vector, if one short, gets the walker's lookup of the
\* callee's first free variable in front; the stored vectors, if one short,
\* get their site's rfv entry in front; the original positions follow
C19_Reconciled ==
    [][SummarizeVisit =>
         \A k \in 1..Len(CurFn.blocks[Head(work).b].instrs) :
            LET i == CurFn.blocks[Head(work).b].instrs[k]
                S == ScanAt(k)
                T == ScanAt(k + 1)
            IN StoredCall(S, i) /\ ArityGap(S, i) \in {1, -1} =>
                 LET c == prog.funcs[i.callee]
                     na == S.facts[c.obj].na
                     rfv == S.facts[c.obj].rfv
                     na2 == T.facts[c.obj].na
                     new == nilnessesOf(S.stack, i.args)
                     mx == IF ArityGap(S, i) = 1 THEN Len(i.args) + 1 ELSE Len(i.args)
                 IN /\ ~T.panic /\ pc' = "summarize"
                    /\ DOMAIN na2 = DOMAIN na \cup {i.pos}
                    /\ \A p \in DOMAIN na2 : Len(na2[p]) = mx
                    /\ \A p \in DOMAIN facts'[c.obj].na : Len(facts'[c.obj].na[p]) = mx
                    /\ i.pos \in DOMAIN facts'[c.obj].na
                    /\ IF ArityGap(S, i) = 1
                       THEN /\ na2[i.pos] = <<nilnessOf(S.stack, c.freeVars[1])>> \o new
                            /\ \A p \in DOMAIN na \ {i.pos} : na2[p] = na[p]
                       ELSE /\ na2[i.pos] = new
                            /\ \A p \in DOMAIN na :
                                  p \in DOMAIN rfv /\ na2[p] = <<rfv[p]>> \o na[p]]_vars

\* the method m3, with one declared parameter, has a vector of a static call
\* and a vector of a method-value call, both of length 2 with the receiver
\* in front of the argument: [NonNil, Nil] for m(nil), [NonNil, NonNil] for
\* s1.m3(&a)
C19_Witness ==
    /\ pc = "done"
    /\ "m3" \in DOMAIN facts
    /\ facts["m3"].na = MapPut(MapPut(EmptyMap, 751, <<isnonnil, isnil>>),
                               752, <<isnonnil, isnonnil>>)

\* the entry seeding of the function to walk next finds a merged vector whose
\* length minus the parameter count is neither 0 nor 1
SeedMismatch ==
    /\ pc \in {"summarize", "diagnose"} /\ ~walking /\ fidx <= Len(prog.src)
    /\ ~CurFn.ignored /\ CurFn.blocks # <<>> /\ CurFn.hasObj
    /\ length(facts[CurFn.obj].na) # 0
    /\ length(facts[CurFn.obj].na) - Len(CurFn.params) \notin {0, 1}

\* the visit at the head of work reaches, at its k-th instruction, a call
\* whose argument count differs from the stored length by more than one
SiteMismatch(k) ==
    /\ walking /\ work # <<>> /\ pc = "summarize" /\ Head(work).b \notin seen
    /\ k \in 1..Len(CurFn.blocks[Head(work).b].instrs)
    /\ LET i == CurFn.blocks[Head(work).b].instrs[k]
       IN StoredCall(ScanAt(k), i) /\ ArityGap(ScanAt(k), i) \notin {-1, 0, 1}

\* C20: if the entry seeding (of a function with a non-empty merged vector)
\* finds length minus parameter count outside {0, 1}, or a Summarize visit
\* finds a call whose argument count differs from the stored length by more
\* than one, the run panics: the facts stay as they were when the violation
\* was detected, no diagnostic is added, and nothing changes afterwards
C20_Fatal ==
    [][/\ SeedMismatch => pc' = "panic" /\ facts' = facts /\ diags' = diags
       /\ walking /\ work # <<>> =>
             \A k \in 1..Len(CurFn.blocks[Head(work).b].instrs) :
                SiteMismatch(k) /\ seen' # seen =>
                    /\ pc' = "panic"
                    /\ facts' = ScanAt(k).facts
                    /\ diags' = diags
       /\ pc = "panic" => UNCHANGED <<facts, diags, ar, gr, pc>>]_vars

\* the run has panicked with the facts of the method m3 holding one vector of
\* length 1 for two parameters, or with the facts of k2 holding the vector of
\* its first call site only
C20_Witness ==
    /\ pc = "panic" /\ diags = <<>>
    /\ \/ /\ "m3" \in DOMAIN facts
          /\ length(facts["m3"].na) - Len(prog.funcs["m3"].params) = -1
       \/ /\ "k2" \in DOMAIN facts
          /\ DOMAIN facts["k2"].na = {774}

\* instruction i is a call whose static callee has an object and belongs to
\* another package
ForeignCall(i) ==
    /\ i.op \in CallOps /\ i.callee # ""
    /\ prog.funcs[i.callee].hasObj /\ prog.funcs[i.callee].pkg # "self"

\* the values a call's return facts may be about: the call value and the
\* Extract instructions that refer to it
CallValues(i) ==
    {IV(i)} \cup {IV(prog.instr[q]) : q \in {r \in SeqToSet(prog.refs0[i.pos]) :
                                               prog.instr[r].op = "Extract"}}

\* the facts of stack T after the first Len(S) ones
Pushed(S, T) == {T[k] : k \in (Len(S) + 1)..Len(T)}

\* C21: a call whose static callee belongs to another package never adds to
\* or changes the callee's na, nr or rfv (no step changes the facts of a
\* function of another package); when the callee's package has pkgDone the
\* Summarize visit of the call changes no fact at all, does not set updated,
\* and pushes only facts about the call value or its projections with
\* nilnesses of the callee's merged nr
C21_ForeignSealed ==
    [][/\ \A o \in DOMAIN facts : prog.funcs[o].pkg # "self" => facts'[o] = facts[o]
       /\ SummarizeVisit =>
            \A k \in 1..Len(CurFn.blocks[Head(work).b].instrs) :
               LET i == CurFn.blocks[Head(work).b].instrs[k]
                   S == ScanAt(k)
                   T == ScanAt(k + 1)
               IN ForeignCall(i) /\ prog.extDone =>
                    LET nr == S.facts[prog.funcs[i.callee].obj].nr
                        merged == mergePosToNilnesses(nr)
                    IN /\ T.facts = S.facts /\ T.upd = S.upd /\ T.diags = S.diags
                       /\ Len(T.stack) >= Len(S.stack)
                       /\ SubSeq(T.stack, 1, Len(S.stack)) = S.stack
                       /\ Pushed(S.stack, T.stack) \subseteq
                             {Fact(v, merged[j]) : v \in CallValues(i),
                                                   j \in 1..Len(merged)}]_vars

\* the run is over for a caller of Ext, a function of a package with pkgDone
\* and one NonNil result: the facts of Ext are the imported ones, and the
\* load of the call value was not reported, the fact having been pushed
C21_Witness ==
    /\ pc = "done" /\ prog.extDone
    /\ "Ext" \in DOMAIN facts
    /\ facts["Ext"] = prog.extFacts["Ext"]
    /\ facts["Ext"].na = EmptyMap
    /\ mergePosToNilnesses(facts["Ext"].nr) = <<isnonnil>>
    /\ diags = <<>>

\* some walked function calls, in its entry block, a function of another
\* package
CallsForeign ==
    \E f \in Walked : \E i \in SeqToSet(prog.funcs[f].blocks[1].instrs) : ForeignCall(i)

\* C22: when a call's static callee belongs to another package without
\* pkgDone, the Summarize visit of the call changes no fact and pushes
\* nothing, reports nothing and does not panic; it sets checkFunc's updated,
\* so the round ends with run's updated set and another round follows
C22_Deferred ==
    /\ [][SummarizeVisit =>
            \A k \in 1..Len(CurFn.blocks[Head(work).b].instrs) :
               LET i == CurFn.blocks[Head(work).b].instrs[k]
                   S == ScanAt(k)
                   T == ScanAt(k + 1)
               IN ForeignCall(i) /\ ~prog.extDone /\ ~S.panic =>
                    /\ T = [S EXCEPT !.upd = TRUE]
                    /\ wupd' /\ pc' = "summarize" /\ diags' = diags]_vars
    /\ [](~prog.extDone /\ CallsForeign =>
            /\ pc = "summarize" /\ diags = <<>>
            /\ (~walking /\ fidx > Len(prog.src)) =>
                   updated /\ (round < MaxRounds => ENABLED NextRound))

\* rounds after the first are reached with the call of Ext still deferred:
\* no fact about any function, no diagnostic
C22_Witness ==
    /\ ~prog.extDone /\ CallsForeign
    /\ round > 2 /\ pc = "summarize"
    /\ \A o \in DOMAIN facts : facts[o] = IF o \in DOMAIN prog.extFacts
                                          THEN prog.extFacts[o] ELSE EmptyInfo
    /\ diags = <<>>

\* instruction i is a call of a static callee whose returns are known: the
\* callee has an object, a non-empty nr and, if of another package, pkgDone
KnownReturns(S, i) ==
    /\ i.op \in CallOps /\ i.callee # "" /\ ~S.panic
    /\ prog.funcs[i.callee].hasObj
    /\ prog.funcs[i.callee].pkg # "self" => prog.extDone
    /\ length(S.facts[prog.funcs[i.callee].obj].nr) >= 1

\* the Extract instructions that refer to the value of call i
Projections(i) ==
    {prog.instr[q] : q \in {r \in SeqToSet(prog.refs0[i.pos]) :
                               prog.instr[r].op = "Extract"}}

\* a visit is about to scan the block at the head of work
VisitPending ==
    /\ pc \in {"summarize", "diagnose"} /\ walking /\ work # <<>>
    /\ Head(work).b \notin seen

\* C23: after a call of a static callee with known returns, in Summarize and
\* in Diagnose mode: with one result the fact (call value, merged[0]) is
\* pushed, and stays for the rest of the block and the dominees; with more
\* results each Extract of the call value with index j gets the fact
\* (Extract, merged[j]), whatever the order or number of the Extracts
C23_ReturnFacts ==
    VisitPending =>
        \A k \in 1..Len(CurFn.blocks[Head(work).b].instrs) :
           LET i == CurFn.blocks[Head(work).b].instrs[k]
               S == ScanAt(k)
               T == ScanAt(k + 1)
           IN KnownReturns(S, i) /\ i.op \in ValueOps =>
                LET merged == mergePosToNilnesses(S.facts[prog.funcs[i.callee].obj].nr)
                IN /\ ~T.panic
                   /\ Len(merged) = 1 =>
                         Fact(IV(i), merged[1]) \in Pushed(S.stack, T.stack)
                   /\ Len(merged) > 1 =>
                         \A e \in Projections(i) :
                            Fact(IV(e), merged[e.index + 1]) \in Pushed(S.stack, T.stack)

\* the functions in SrcFuncs that isIgnoredFunction holds of
Ignored == {f \in SrcNames : prog.funcs[f].ignored}

\* the sites recorded in the facts of any function
Sites == UNION {DOMAIN facts[o].na \cup DOMAIN facts[o].nr \cup DOMAIN facts[o].rfv :
                   o \in DOMAIN facts}

\* C24: a function of which the ignore predicate holds is never walked, in
\* Summarize or in Diagnose mode: none of its call or return instructions is
\* a site of any fact, and no diagnostic is at one of its instructions
C24_IgnoredUnwalked ==
    /\ walking => ~CurFn.ignored
    /\ \A f \in Ignored : \A i \in SeqToSet(AllInstrs(prog.funcs[f])) :
          /\ i.pos \notin Sites
          /\ i.pos \notin ar
          /\ \A k \in 1..Len(diags) : diags[k].pos # i.pos

\* the run is over: j4 has the site of k4 only, not the site of the ignored
\* t4 that passes nil, so the dereference in j4 is not reported; t4, which
\* returns nil, has no return site
C24_Witness ==
    /\ pc = "done"
    /\ "t4" \in Ignored
    /\ facts["j4"].na = MapPut(EmptyMap, 986, <<isnonnil>>)
    /\ facts["t4"].nr = EmptyMap
    /\ diags = <<>>

\* the instructions that dereference an operand: field address, map update,
\* slice of a pointer to an array, store, type assertion without comma-ok,
\* load, and any call, which dereferences its target
IsDeref(i) ==
    \/ i.op \in CallOps
    \/ i.op \in {"FieldAddr", "MapUpdate", "Store"}
    \/ i.op = "Slice" /\ i.flag
    \/ i.op = "TypeAssert" /\ ~i.flag
    \/ i.op = "UnOp" /\ i.flag
DerefOperand(i) == IF i.op \in CallOps THEN i.fnval ELSE i.x

\* the first operand of i is the load of a global bearing the
\* alreadyReportedGlobal fact in scan state S
GlobalMarked(S, i) ==
    /\ Len(Operands(i)) > 0
    /\ Operands(i)[1].kind = "UnOp" /\ Operands(i)[1].g \in S.gr

\* C25: in Diagnose mode every visited dereferencing instruction whose
\* operand's lookup is not NonNil is reported as a nilderef at its position,
\* unless the instruction is in alreadyReported or its first operand is the
\* load of a global bearing alreadyReportedGlobal
C25_AllReported ==
    [][VisitPending /\ pc = "diagnose" /\ seen' # seen =>
         \A k \in 1..Len(CurFn.blocks[Head(work).b].instrs) :
            LET i == CurFn.blocks[Head(work).b].instrs[k]
                S == ScanAt(k)
                T == ScanAt(k + 1)
            IN (/\ IsDeref(i) /\ ~S.panic
                /\ nilnessOf(S.stack, DerefOperand(i)) # isnonnil
                /\ i.pos \notin S.ar /\ ~GlobalMarked(S, i)) =>
                   /\ Len(T.diags) = Len(S.diags) + 1
                   /\ T.diags[Len(T.diags)].cat = "nilderef"
                   /\ T.diags[Len(T.diags)].pos = i.pos
                   /\ \E j \in 1..Len(diags') : diags'[j] = T.diags[Len(T.diags)]]_vars

\* the run on the function whose operands are parameters of unknown nilness
\* is over: the nine dereferencing instructions are reported, in order
C25_Witness ==
    /\ pc = "done"
    /\ "kinds" \in DOMAIN prog.funcs /\ Len(prog.funcs["kinds"].params) = 13
    /\ [k \in 1..Len(diags) |-> diags[k].pos] =
          <<1001, 1002, 1003, 1005, 1006, 1008, 1010, 1011, 1012>>

\* the meet the lattice laws speak of: a when a = b, Unknown otherwise
Meet(a, b) == IF a = b THEN a ELSE unknown

\* C26: negation swaps Nil and NonNil, fixes Unknown and is an involution;
\* merge(a, b) is a when a = b and Unknown otherwise, so it is commutative,
\* associative, idempotent and Unknown absorbs; mergeNilnesses is the
\* positional meet, panics exactly on unequal lengths, and its changed flag
\* is true exactly when the result differs from the first operand.
C26_LatticeLaws ==
    /\ calc.op = "negate" =>
          /\ calc.out.value = calc.f.value
          /\ calc.f.nilness = isnil => calc.out.nilness = isnonnil
          /\ calc.f.nilness = isnonnil => calc.out.nilness = isnil
          /\ calc.f.nilness = unknown => calc.out.nilness = unknown
          /\ calc.twice = calc.f
    /\ calc.op = "merge" =>
          /\ calc.ab = Meet(calc.a, calc.b)
          /\ calc.ab = calc.ba
          /\ calc.left = calc.right
          /\ calc.a = calc.b => calc.ab = calc.a
          /\ (calc.a = unknown \/ calc.b = unknown) => calc.ab = unknown
    /\ calc.op = "mergeNilnesses" =>
          /\ calc.out.panic <=> Len(calc.na) # Len(calc.carg)
          /\ ~calc.out.panic =>
                /\ Len(calc.out.ns) = Len(calc.na)
                /\ \A i \in 1..Len(calc.na) :
                      calc.out.ns[i] = Meet(calc.na[i], calc.carg[i])
                /\ calc.out.changed <=> calc.out.ns # calc.na

\* a vector meet that changed its first operand in one position only
C26_Witness ==
    /\ calc.op = "mergeNilnesses"
    /\ calc.na = <<isnil, isnonnil>>
    /\ calc.carg = <<isnil, isnil>>
    /\ calc.out = [ns |-> <<isnil, unknown>>, changed |-> TRUE, panic |-> FALSE]

\* the indexes of the facts about v on a stack
EntriesOf(stack, v) == {i \in 1..Len(stack) : stack[i].value = v}

\* C27: the lookup of a constant is Nil for the nil literal and NonNil
\* otherwise, and the lookup of an intrinsically non-nil value is NonNil,
\* whatever facts the stack holds for that value; only for the other values
\* the stack is consulted, and a value with no entry is Unknown.
C27_LookupPrecedence ==
    calc.op = "nilnessOf" =>
        LET v == calc.v
            es == EntriesOf(calc.stack, v)
        IN  /\ v.kind = "Const" => calc.out = (IF v.nil THEN isnil ELSE isnonnil)
            /\ v.kind \in IntrinsicKinds => calc.out = isnonnil
            /\ (v.kind # "Const" /\ v.kind \notin IntrinsicKinds) =>
                  /\ es = {} => calc.out = unknown
                  /\ es # {} => \E i \in es : calc.out = calc.stack[i].nilness

\* the nil literal looked up under a fact that says it is non-nil, after a
\* fact that says a fresh allocation is nil
C27_Witness ==
    /\ calc.op = "nilnessOf"
    /\ calc.v = NilConst(1)
    /\ calc.stack = <<Fact(Val("Alloc", 3), isnil), Fact(NilConst(1), isnonnil)>>
    /\ calc.out = isnil

\* the immediate dominator of block b: the block that lists b as a dominee
\* (0 for the entry block and for a block nobody dominates)
Idom(fn, b) ==
    LET ps == {d \in 1..Len(fn.blocks) : b \in SeqToSet(fn.blocks[d].dominees)}
    IN IF ps = {} THEN 0 ELSE CHOOSE d \in ps : TRUE

\* the blocks the walk in progress has yet to visit, in order
Pending == [k \in 1..Len(work) |-> work[k].b]

WalkOrder ==
    walking =>
        LET fn == CurFn
            below == UNION {DomSubtree(fn, d) : d \in skipped}
        IN /\ \A k \in 1..Len(Pending) :
                 /\ Pending[k] \notin seen
                 /\ \A j \in 1..Len(Pending) : Pending[j] = Pending[k] => j = k
                 /\ Pending[k] = 1 \/ Idom(fn, Pending[k]) \in seen
           /\ \A b \in seen : b = 1 \/ Idom(fn, b) \in seen
           /\ seen \subseteq DomSubtree(fn, 1)
           /\ seen \cap below = {}
           /\ \A k \in 1..Len(Pending) : Pending[k] \notin below

\* the number of visits the walk in progress can still make: the sizes of
\* the dominator subtrees of the blocks it has yet to visit
RECURSIVE Remaining(_, _)
Remaining(fn, pending) ==
    IF pending = <<>> THEN 0
    ELSE Cardinality(DomSubtree(fn, Head(pending))) + Remaining(fn, Tail(pending))

\* C28: in a walk no block is visited or scheduled twice, a block is visited
\* only once its immediate dominator has been, and no block outside the
\* dominator subtree of the entry block or in the subtree of a pruned
\* successor is visited; the walk always terminates: each of its steps ends
\* it or leaves fewer visits to make, in the same function.
C28_WalkTerminates ==
    /\ []WalkOrder
    /\ [][walking => \/ ~walking'
                     \/ /\ fidx' = fidx
                        /\ Remaining(CurFn, Pending') < Remaining(CurFn, Pending)]_vars

\* the walk of f2 has ended with one child of the entry block pruned and the
\* two blocks below it unvisited
C28_Witness ==
    /\ ~walking /\ pc \in {"summarize", "diagnose"}
    /\ last.fn = "f2" /\ skipped = {3} /\ seen = {1, 2, 4}

\* C29: when the visited block does not end in an == or != comparison, or
\* when it does and neither operand's lookup is Nil, prune handles nothing:
\* the visit emits no cond diagnostic, and every dominee of the block is
\* visited, in order, with the stack as it was after the block's
\* instructions, no hypothesis added.
C29_NotHandled ==
    (last.b # 0 /\ (~LastIsCmp \/ (LastXn # isnil /\ LastYn # isnil))) =>
        /\ ~last.handled
        /\ last.conds = <<>>
        /\ last.skipped = {}
        /\ last.kids = [k \in 1..Len(LastBlock.dominees) |->
                          Kid(LastBlock.dominees[k], last.stackOut)]

\* a Diagnose visit of a block that ends in a comparison of two operands
\* known to be non-nil, whose three dominees are then visited
C29_Witness ==
    /\ last.b # 0 /\ LastIsCmp /\ ~last.onlyCheck
    /\ LastXn = isnonnil /\ LastYn = isnonnil
    /\ Len(last.kids) = 3

\* the instructions of the program and the positions of its nilderef reports
ProgInstrs == UNION {SeqToSet(AllInstrs(prog.funcs[f])) : f \in DOMAIN prog.funcs}
NilDerefAt == {diags[k].pos : k \in {h \in 1..Len(diags) : diags[h].cat = "nilderef"}}

\* the operand of i is the nil constant
OnNil(i) == LET v == DerefOperand(i) IN v.kind = "Const" /\ v.nil

\* C30: a nilderef diagnostic is only ever reported for a field address, a map
\* update, a store, a unary dereference, a call (its target), a type assertion
\* that is not comma-ok or a slice of a pointer, never for a comma-ok type
\* assertion, a slice of a non-pointer or an index-address operation; and
\* when a function with one instruction of every kind on the nil constant has
\* been diagnosed, the reported instructions are exactly those of the kinds
\* listed.
C30_CheckedKinds ==
    /\ \A i \in ProgInstrs : i.pos \in NilDerefAt =>
          /\ \/ i.op \in {"FieldAddr", "MapUpdate", "Store"}
             \/ i.op = "UnOp" /\ i.flag
             \/ i.op \in {"Call", "Go", "Defer"}
             \/ i.op = "TypeAssert" /\ ~i.flag
             \/ i.op = "Slice" /\ i.flag
          /\ i.op # "IndexAddr"
          /\ ~(i.op = "TypeAssert" /\ i.flag)
          /\ ~(i.op = "Slice" /\ ~i.flag)
    /\ (pc = "done" /\ "kinds" \in DOMAIN prog.funcs) =>
          \A i \in SeqToSet(AllInstrs(prog.funcs["kinds"])) :
              OnNil(i) => (i.pos \in NilDerefAt <=> IsDeref(i))

\* the run on the function whose operands are nil constants is over: the
\* comma-ok assertion, the slice of a non-pointer, the unary operation that
\* is no dereference and the index operation are not reported, the nine
\* others are
C30_Witness ==
    /\ pc = "done" /\ "kinds" \in DOMAIN prog.funcs
    /\ \A i \in SeqToSet(AllInstrs(prog.funcs["kinds"])) :
          i.pos \in 1001..1013 => OnNil(i)
    /\ NilDerefAt = {1001, 1002, 1003, 1005, 1006, 1008, 1010, 1011, 1012}

\* the return sites of function f that return at least one value
ResultSites(f) ==
    {i.pos : i \in {r \in ReturnsOf(prog.funcs[f]) : Len(r.results) >= 1}}

\* C31: in Summarize mode a return instruction with at least one result sets
\* the entry of its position in the enclosing function's nr to the lookups of
\* the returned values under the stack at the instruction, and leaves the
\* entries of the other return sites alone; after the fixpoint loop a walked
\* function has entries at return sites with results only, none if it has no
\* result, and g3, which returns nil at one site and the value of a dynamic
\* call at the other, has exactly the entries [Nil] and [Unknown].
C31_ReturnSites ==
    /\ [][SummarizeVisit =>
            \A k \in 1..Len(CurFn.blocks[Head(work).b].instrs) :
                LET i == CurFn.blocks[Head(work).b].instrs[k]
                    S == ScanAt(k)
                    T == ScanAt(k + 1)
                    o == CurFn.obj
                IN (i.op = "Return" /\ Len(i.results) >= 1 /\ CurFn.hasObj) =>
                      /\ DOMAIN T.facts[o].nr = DOMAIN S.facts[o].nr \cup {i.pos}
                      /\ T.facts[o].nr[i.pos] =
                            [j \in 1..Len(i.results) |-> nilnessOf(S.stack, i.results[j])]
                      /\ \A p \in DOMAIN S.facts[o].nr \ {i.pos} :
                            T.facts[o].nr[p] = S.facts[o].nr[p]]_vars
    /\ [](pc \in {"diagnose", "done"} =>
            /\ \A f \in Walked : prog.funcs[f].hasObj =>
                  /\ DOMAIN facts[prog.funcs[f].obj].nr \subseteq ResultSites(f)
                  /\ ResultSites(f) = {} => facts[prog.funcs[f].obj].nr = EmptyMap
            /\ "g3" \in SrcNames =>
                  /\ DOMAIN facts["g3"].nr = {192, 193}
                  /\ facts["g3"].nr[192] = <<isnil>>
                  /\ facts["g3"].nr[193] = <<unknown>>)

\* the fixpoint loop is over for g3 and f3: g3 has its two entries and f3,
\* which returns err under the hypothesis err != nil and nil, has [NonNil]
\* and [Nil]
C31_Witness ==
    /\ pc = "done" /\ "g3" \in SrcNames
    /\ facts["g3"].nr[193] = <<unknown>>
    /\ facts["f3"].nr[94] = <<isnonnil>> /\ facts["f3"].nr[98] = <<isnil>>

\* the functions of the package that take no argument and are the function
\* of no closure, called with no argument at every site
ZeroArgs ==
    {f \in DOMAIN prog.funcs :
        /\ prog.funcs[f].pkg = "self" /\ prog.funcs[f].hasObj
        /\ prog.funcs[f].params = <<>> /\ prog.funcs[f].freeVars = <<>>
        /\ \A g \in DOMAIN prog.funcs : prog.funcs[g].obj = f => g = f
        /\ \A i \in SitesOf(f) : i.args = <<>>}

\* C32: the na of a callee without arguments or free variables never holds
\* more than one entry, the empty vector at one of its call sites, and once
\* set it never changes; a Summarize call of such a callee whose na has its
\* entry changes no fact and does not set updated; after the fixpoint loop
\* z7, called at three sites, has exactly one entry.
C32_OneEntry ==
    /\ [](\A f \in ZeroArgs :
            /\ MapLen(facts[f].na) <= 1
            /\ facts[f].rfv = EmptyMap
            /\ \A p \in DOMAIN facts[f].na :
                  /\ facts[f].na[p] = <<>>
                  /\ p \in {i.pos : i \in SitesOf(f)})
    /\ [](pc \in {"diagnose", "done"} /\ "z7" \in SrcNames => MapLen(facts["z7"].na) = 1)
    /\ [][\A f \in ZeroArgs : facts[f].na # EmptyMap => facts'[f].na = facts[f].na]_vars
    /\ [][SummarizeVisit =>
            \A k \in 1..Len(CurFn.blocks[Head(work).b].instrs) :
                LET i == CurFn.blocks[Head(work).b].instrs[k]
                    S == ScanAt(k)
                    T == ScanAt(k + 1)
                IN (/\ i.op \in CallOps /\ i.callee \in ZeroArgs
                    /\ S.facts[i.callee].na # EmptyMap) =>
                      /\ T.facts = S.facts
                      /\ T.upd = S.upd]_vars

\* the fixpoint loop is over with b7 walked first: z7 is called at 1501,
\* 1502 and 1504 and its single entry is keyed by b7's call site
C32_Witness ==
    /\ pc = "done" /\ "z7" \in SrcNames
    /\ prog.src[1] = "b7"
    /\ DOMAIN facts["z7"].na = {1504}
    /\ facts["z7"].na[1504] = <<>>

\* the facts are a fixed point: a Summarize walk of any walked function
\* leaves them as they are (so does any sequence of such walks)
FixedPoint ==
    \A f \in Walked : Summarized(prog, prog.funcs[f], facts, refs) = facts

\* run has left the fixpoint loop and has not begun the Diagnose loop
LoopExit == pc = "diagnose" /\ fidx = 1 /\ ~walking /\ pass1 = -1

\* C33 (as stated): when the fixpoint loop exits, one more Summarize walk of
\* any non-ignored source function adds no entry and changes no stored vector
\* or receiver nilness in the facts of any function.
C33_FixedPoint == LoopExit => FixedPoint

\* the orders the source functions of the program can be given in
Orders == Perms(SrcNames)

\* C34 (as stated): two runs on the same input that differ in the order of the
\* source functions only, and both end, end with the same facts (na and nr of
\* every function) and the same set of diagnostics.
C34_OrderIndependent ==
    pc = "done" =>
        \A o \in Orders :
            LET R == run(prog, o)
            IN R.ended =>
                  /\ \A f \in DOMAIN facts :
                        /\ R.facts[f].na = facts[f].na
                        /\ R.facts[f].nr = facts[f].nr
                  /\ SeqToSet(R.diags) = SeqToSet(diags)

\* the run of the model's steps and run as one computation agree
RunAgrees ==
    pc = "done" =>
        LET R == run(prog, prog.src)
        IN R.ended /\ R.facts = facts /\ R.diags = diags

\* block a is b or dominates b in the tree of the walk
RECURSIVE Dominates(_, _)
Dominates(a, b) ==
    \/ a = b
    \/ \E c \in SeqToSet(mem.tree[a]) : Dominates(c, b)

\* C35: whenever a block is being visited, the stack it holds shows exactly
\* the facts pushed on the way to it, in order: each was pushed for the block
\* itself or for a block that dominates it, and none was pushed in or for a
\* sibling subtree, whatever the earlier visits left in the backing array
\* the stacks share.
C35_DominatingFactsOnly ==
    \A k \in 1..Len(mem.frames) :
        LET f == mem.frames[k]
            shown == Elems(mem.heap, f.sl)
        IN /\ shown = f.want
           /\ \A j \in 1..Len(shown) :
                 /\ Dominates(shown[j].for, f.b)
                 /\ Dominates(shown[j].by, f.b)

\* block 4 of f2's tree is visited after its siblings 2 and 3: the slot
\* after the end of its stack, in the array it shares with them, still holds
\* the hypothesis pushed for block 3
C35_Witness ==
    /\ mem.frames # <<>>
    /\ TopFrame.b = 4 /\ Len(mem.tree) = 6
    /\ TopFrame.sl.len < TopFrame.sl.cap
    /\ mem.heap[TopFrame.sl.a][TopFrame.sl.len + 1] = [by |-> 1, for |-> 3]

\* C36: the two modes have disjoint effects.  No step of a Diagnose walk
\* changes the functionInfo of any function (arguments by call site, returns
\* by site, receiver and free variables by site), and no step of a Summarize
\* walk reports a diagnostic, adds to alreadyReported or exports an
\* alreadyReportedGlobal fact.
C36_DisjointEffects ==
    [][/\ pc = "diagnose" => facts' = facts
       /\ pc = "summarize" => diags' = diags /\ ar' = ar /\ gr' = gr /\ dlog' = dlog]_vars

\* a Diagnose walk has reported and suppressed, in a run whose Summarize
\* walks recorded call sites and the nilness of a degenerate comparison
C36_Witness ==
    /\ pc = "diagnose" /\ walking
    /\ last.onlyCheck = FALSE
    /\ \E k \in 1..Len(diags) : diags[k].cat = "cond"
    /\ \E k \in 1..Len(diags) : diags[k].cat = "nilderef"
    /\ ar # {}
    /\ \E f \in DOMAIN facts : DOMAIN facts[f].na # {}

\* C37: the analysis leaves its SSA input unchanged: once a nil dereference
\* on an operand v has been reported and the marking of its referrers has
\* run, the referrer list of v is the list of instructions it was before
\* the report, so that a later loop over the referrers of v meets the
\* original referrers.
C37_ReferrersKept ==
    \A d \in dlog :
        d.v.id \in DOMAIN refs => refs[d.v.id] = prog.refs0[d.v.id]

\* a step that scans the block at the head of work in Diagnose mode
DiagnoseVisit ==
    /\ walking /\ work # <<>> /\ pc = "diagnose"
    /\ Head(work).b \notin seen
    /\ seen' # seen

\* the ids of the values computed from the values ids: the values themselves
\* and the instructions that have one of them, or a value computed from one
\* of them, as an operand
RECURSIVE ComputedFrom(_)
ComputedFrom(ids) ==
    LET nxt == ids \cup UNION {SeqToSet(prog.refs0[p]) : p \in ids \cap DOMAIN prog.refs0}
    IN IF nxt = ids THEN ids ELSE ComputedFrom(nxt)

\* C38: the suppression hides only reports that share a reported root cause:
\* when the Diagnose visit skips a dereferencing instruction as
\* alreadyReported although the lookup of the operand it dereferences is not
\* isnonnil, that operand is a reported operand or is computed from one; an
\* instruction that has a value computed from a reported operand in another
\* position only (the value stored by a store) is checked and reported.
C38_RootCauseOnly ==
    [][DiagnoseVisit =>
         \A k \in 1..Len(CurFn.blocks[Head(work).b].instrs) :
            LET i == CurFn.blocks[Head(work).b].instrs[k]
                S == ScanAt(k)
            IN (/\ IsDeref(i) /\ i.pos \in S.ar /\ ~GlobalMarked(S, i)
                /\ nilnessOf(S.stack, DerefOperand(i)) # isnonnil)
               => DerefOperand(i).id \in ComputedFrom({d.v.id : d \in S.dlog})]_vars

\* the keys of the calls in progress in goroutine g, innermost last
KeysInProgress(g) ==
    [d \in 1..Len(g.frames) |->
        encodeCallInfo(mainst.graph.nodes[g.frames[d].n], g.frames[d].args)]

\* C39: in Main, the analysis of every root callee terminates.  A request
\* for a (node, argument nilnesses) whose walk is in progress is answered
\* from the cache: no goroutine has two calls in progress for the same
\* request; no goroutine exhausts its stack or panics; every goroutine
\* reaches wg.Done before Main prints, and Main prints the errors of all.
C39_MainTerminates ==
    /\ \A j \in 1..Len(mainst.gs) :
          LET g == mainst.gs[j]
              ks == KeysInProgress(g)
          IN /\ g.st \in {"running", "done"}
             /\ \A a, b \in 1..Len(ks) : ks[a] = ks[b] => a = b
    /\ mainst.pc # "crashed"
    /\ mainst.pc = "end" =>
          /\ mainst.wg = 0
          /\ Len(mainst.gs) = Len(mainst.graph.roots)
          /\ \A j \in 1..Len(mainst.gs) : mainst.gs[j].st = "done"
====
